---- MODULE Spec2Model ----
(***************************************************************************)
(* Touch-input coordinate mapper and camera-grab interaction of            *)
(* Frontend::EmuWindow (src/src/core/frontend/emu_window.cpp).             *)
(*                                                                         *)
(* Number representations                                                  *)
(*  - An `unsigned` (u32) value v is represented by the integer of least   *)
(*    magnitude congruent to v modulo 2^32: a small n >= 0 stands for n,   *)
(*    and -m (m > 0 small) stands for 2^32 - m.  + and - on                *)
(*    representatives are then exactly the wrapping u32 operations, and    *)
(*    the unsigned order is ULt below.                                     *)
(*  - A `float` is the record [hi, lo, den] standing for the rational      *)
(*    (hi * 2^32 + lo) / den, den > 0; hi = 0 for every value that does    *)
(*    not come from a wrapped u32.  Rounding of a quotient to the nearest  *)
(*    float is monotone and fixes 0 and 1, so comparisons against 0 and 1  *)
(*    and equality of identically computed quotients are those of the      *)
(*    rationals.                                                           *)
(***************************************************************************)
EXTENDS Integers, Sequences, FiniteSets, TLC

VARIABLES
    framebuffer_layout,  \* EmuWindow::framebuffer_layout
    render_3d,           \* Settings::values.render_3d
    touch_state,         \* EmuWindow::TouchState: touch_pressed, touch_x, touch_y
    camera_hack_state,   \* EmuWindow::camera_hack_state: grabbed, lastX, lastY, tx, ty
    call,                \* the handler called last, the flags it found and its arguments
    ret,                 \* what the last handler returned: "true", "false" or "void"
    mutex,               \* TouchState::mutex: "free" or the thread that holds it
    input,               \* the input thread: the handler it is in and its locals
    poll,                \* the thread polling Device::GetStatus: position and locals
    window,              \* "open" from EmuWindow() to ~EmuWindow(), then "closed"
    committed,           \* every TouchState a completed handler has left
    fps_camera_controller, \* EmuWindow::fps_camera_controller: worldMatrix,
                         \* keyMovement, mouseMovement
    render_hacks,        \* the inputs handed to SetRenderHacks by the last tick
    buttons,             \* the buttons held down: what ButtonDevice::GetStatus reads
    tick,                \* the last UpdateCameraHack: what it read and what it called
    replace_all          \* the call of Common::ReplaceAll in progress: its locals

threadVars == <<mutex, input, poll, window, committed>>

cameraVars == <<fps_camera_controller, render_hacks, buttons, tick>>

vars ==
    <<framebuffer_layout, render_3d, touch_state, camera_hack_state, call, ret,
      threadVars, cameraVars, replace_all>>

----------------------------------------------------------------------------
(* Bounds of the model *)

\* largest framebuffer x coordinate of an input event
MaxX == 8
\* largest framebuffer y coordinate of an input event
MaxY == 4

----------------------------------------------------------------------------
(* unsigned and float arithmetic *)

\* a < b in the unsigned order of the u32 values a and b stand for
ULt(a, b) == IF (a >= 0) = (b >= 0) THEN a < b ELSE a >= 0

ULe(a, b) == a = b \/ ULt(a, b)

\* std::max / std::min on unsigned
UMax(a, b) == IF ULt(a, b) THEN b ELSE a

UMin(a, b) == IF ULt(b, a) THEN b ELSE a

RECURSIVE Gcd(_, _)
Gcd(a, b) == IF b = 0 THEN a ELSE Gcd(b, a % b)

Abs(n) == IF n < 0 THEN -n ELSE n

\* the canonical record of (hi * 2^32 + lo) / den; den = 0 is the record of a
\* division by zero (an infinity, or NaN for 0 / 0)
Float(hi, lo, den) ==
    IF hi = 0 /\ den # 0
    THEN LET g == Gcd(Abs(lo), den)
         IN  [hi |-> 0, lo |-> lo \div g, den |-> den \div g]
    ELSE [hi |-> hi, lo |-> lo, den |-> den]

FZero == Float(0, 0, 1)

FOne == Float(0, 1, 1)

\* static_cast<float>(u) of an unsigned u: exact below 2^24; a wrapped value
\* 2^32 - m is rounded to 24 significant bits, i.e. to a multiple of 256
\* (ties to even)
IntToFloat(u) ==
    IF u >= 0
    THEN Float(0, u, 1)
    ELSE LET m == -u
             q == m \div 256
             r == m % 256
             up == IF r > 128 \/ (r = 128 /\ q % 2 = 1) THEN q + 1 ELSE q
         IN  Float(1, -(256 * up), 1)

\* f / d, d an unsigned divisor converted to float
FDiv(f, d) == Float(f.hi, f.lo, f.den * d)

\* 1.f - f; next to 2^32 / den the 1 is below half an ulp and is absorbed
FOneMinus(f) ==
    IF f.den = 0 THEN f
    ELSE IF f.hi = 0
    THEN Float(0, f.den - f.lo, f.den)
    ELSE Float(-f.hi, -f.lo, f.den)

IsNaN(f) == f.den = 0 /\ f.hi = 0 /\ f.lo = 0

\* a <= b on floats (false when either is NaN; the infinities of the model
\* are positive)
FLe(a, b) ==
    IF IsNaN(a) \/ IsNaN(b) THEN FALSE
    ELSE IF b.den = 0 THEN TRUE
    ELSE IF a.den = 0 THEN FALSE
    ELSE LET h == a.hi * b.den - b.hi * a.den
             l == a.lo * b.den - b.lo * a.den
         IN  IF h # 0 THEN h < 0 ELSE l <= 0

InUnit(f) == FLe(FZero, f) /\ FLe(f, FOne)

----------------------------------------------------------------------------
(* double arithmetic                                                         *)
(*                                                                           *)
(* A `double` is modelled by the exact decimal it stands for: the record     *)
(* [neg, mag, scale] is (-1)^neg * mag * 10000^(-scale), mag a sequence of   *)
(* digits to the base 10000, least significant first, without leading        *)
(* zeros, and without trailing zeros while scale > 0.  Every constant of     *)
(* UpdateCameraHack (0.8, 0.01, 1/5, 1/500, 0.0001) is such a decimal and    *)
(* sums and products of decimals are decimals.  The rounding of a double     *)
(* operation is relative 2^-53 and no comparison the model evaluates is      *)
(* that close to a tie, so comparisons come out as in the code.  NaN is the  *)
(* record with scale = -1; it absorbs every operation and compares false.    *)

NaN == [neg |-> FALSE, mag |-> <<>>, scale |-> -1]

DIsNaN(a) == a.scale < 0

RECURSIVE NStrip(_)
\* mag without leading (most significant) zeros
NStrip(n) ==
    IF n = <<>> THEN <<>>
    ELSE IF n[Len(n)] = 0 THEN NStrip(SubSeq(n, 1, Len(n) - 1))
    ELSE n

RECURSIVE NAddC(_, _, _)
\* a + b + carry, digit by digit
NAddC(a, b, c) ==
    IF a = <<>> /\ b = <<>>
    THEN IF c = 0 THEN <<>> ELSE <<c>>
    ELSE LET x == IF a = <<>> THEN 0 ELSE Head(a)
             y == IF b = <<>> THEN 0 ELSE Head(b)
             s == x + y + c
         IN  <<s % 10000>> \o NAddC(IF a = <<>> THEN a ELSE Tail(a),
                                    IF b = <<>> THEN b ELSE Tail(b), s \div 10000)

RECURSIVE NSubB(_, _, _)
\* a - b - borrow for a >= b + borrow, digit by digit
NSubB(a, b, c) ==
    IF a = <<>> THEN <<>>
    ELSE LET y == IF b = <<>> THEN 0 ELSE Head(b)
             s == Head(a) - y - c
         IN  <<(s + 10000) % 10000>>
             \o NSubB(Tail(a), IF b = <<>> THEN b ELSE Tail(b),
                      IF s < 0 THEN 1 ELSE 0)

RECURSIVE NLessSame(_, _)
\* a < b for magnitudes of the same length, from the most significant digit
NLessSame(a, b) ==
    IF a = <<>> THEN FALSE
    ELSE IF a[Len(a)] # b[Len(b)] THEN a[Len(a)] < b[Len(b)]
    ELSE NLessSame(SubSeq(a, 1, Len(a) - 1), SubSeq(b, 1, Len(b) - 1))

\* a < b for magnitudes without leading zeros
NLess(a, b) == IF Len(a) # Len(b) THEN Len(a) < Len(b) ELSE NLessSame(a, b)

RECURSIVE NMulD(_, _, _)
\* a * d + carry for one digit d
NMulD(a, d, c) ==
    IF a = <<>>
    THEN IF c = 0 THEN <<>> ELSE <<c % 10000>> \o NMulD(a, d, c \div 10000)
    ELSE LET s == Head(a) * d + c
         IN  <<s % 10000>> \o NMulD(Tail(a), d, s \div 10000)

RECURSIVE NMul(_, _)
NMul(a, b) ==
    IF b = <<>> \/ a = <<>> THEN <<>>
    ELSE IF Len(a) < Len(b) THEN NMul(b, a)
    ELSE IF Len(b) = 1 THEN NMulD(a, b[1], 0)
    ELSE NAddC(NMulD(a, Head(b), 0), <<0>> \o NMul(a, Tail(b)), 0)

RECURSIVE NDigits(_)
\* the digits of a natural number
NDigits(n) == IF n = 0 THEN <<>> ELSE <<n % 10000>> \o NDigits(n \div 10000)

RECURSIVE DMake(_, _, _)
\* the canonical record of (-1)^neg * mag * 10000^(-scale)
DMake(neg, mag, scale) ==
    IF scale > 0 /\ mag # <<>> /\ Head(mag) = 0
    THEN DMake(neg, Tail(mag), scale - 1)
    ELSE LET m == NStrip(mag)
         IN  IF m = <<>> THEN [neg |-> FALSE, mag |-> <<>>, scale |-> 0]
             ELSE [neg |-> neg, mag |-> m, scale |-> scale]

\* the decimal n * 10^(-scale) of an integer n, scale in 0 .. 4
D(n, scale) ==
    IF scale = 0 THEN DMake(n < 0, NDigits(Abs(n)), 0)
    ELSE DMake(n < 0, NDigits(Abs(n) * 10 ^ (4 - scale)), 1)

DZero == D(0, 0)

DOne == D(1, 0)

DIsZero(a) == a.scale >= 0 /\ a.mag = <<>>

DNeg(a) == IF a.scale < 0 \/ a.mag = <<>> THEN a ELSE [a EXCEPT !.neg = ~a.neg]

DAbs(a) == [a EXCEPT !.neg = FALSE]

\* mag * 10000^k
NShift(mag, k) == IF mag = <<>> THEN mag ELSE [i \in 1 .. k |-> 0] \o mag

DAdd(a, b) ==
    IF DIsNaN(a) \/ DIsNaN(b) THEN NaN
    ELSE IF a.mag = <<>> THEN b
    ELSE IF b.mag = <<>> THEN a
    ELSE LET s == IF a.scale > b.scale THEN a.scale ELSE b.scale
             x == NShift(a.mag, s - a.scale)
             y == NShift(b.mag, s - b.scale)
         IN  IF a.neg = b.neg THEN DMake(a.neg, NAddC(x, y, 0), s)
             ELSE IF NLess(x, y) THEN DMake(b.neg, NSubB(y, x, 0), s)
             ELSE DMake(a.neg, NSubB(x, y, 0), s)

DSub(a, b) == DAdd(a, DNeg(b))

DMul(a, b) ==
    IF DIsNaN(a) \/ DIsNaN(b) THEN NaN
    ELSE IF a.mag = <<>> \/ b.mag = <<>> THEN DZero
    ELSE IF a.mag = <<1>> /\ a.scale = 0 THEN (IF a.neg THEN DNeg(b) ELSE b)
    ELSE IF b.mag = <<1>> /\ b.scale = 0 THEN (IF b.neg THEN DNeg(a) ELSE a)
    ELSE DMake(a.neg # b.neg, NMul(a.mag, b.mag), a.scale + b.scale)

\* a < b; false when either is NaN
DLt(a, b) ==
    /\ ~DIsNaN(a) /\ ~DIsNaN(b)
    /\ LET d == DSub(a, b) IN d.neg

\* std::min / std::max as <algorithm> defines them
DMin(a, b) == IF DLt(b, a) THEN b ELSE a

DMax(a, b) == IF DLt(a, b) THEN b ELSE a

----------------------------------------------------------------------------
(* Common::mat4_* (src/src/common/string_util.cpp)                           *)
(*                                                                           *)
(* A mat4_t is the record [m, ops]: m the 16 doubles and ops the operations  *)
(* applied to m whose result is no decimal (a rotation by a non-zero angle,  *)
(* whose factors are sines and cosines, and whatever is applied after it);   *)
(* ops = <<>> for a matrix known element by element.  A vector read from a   *)
(* matrix is [v, ops] in the same way.  A rotation or a translation changes  *)
(* neither the determinant of a matrix nor the length of the vector of its   *)
(* elements 1, 5, 9, so both are zero exactly when those of m are.           *)
(* A call is given `alias`: "null" (dest is null), "same" (dest == mat) or   *)
(* "other", and the matrices dest and mat point at; it yields what it        *)
(* returns ("null", "mat" or "dest") and both matrices as it leaves them.    *)

Concrete(m) == [m |-> m, ops |-> <<>>]

Vec(x, y, z) == [v |-> <<x, y, z>>, ops |-> <<>>]

\* mat[i], i counted from 0 as in the code
el(mat, i) == mat.m[i + 1]

\* mat4_identity(dest)
mat4_identity ==
    Concrete(<<DOne, DZero, DZero, DZero,
               DZero, DOne, DZero, DZero,
               DZero, DZero, DOne, DZero,
               DZero, DZero, DZero, DOne>>)

\* mat4_translate that, given a separate dest, writes only its elements 12..15
mat4_translate_LastRowOnly(alias, dest, mat, v) ==
    LET x == v[1]
        y == v[2]
        z == v[3]
        row(i) == DAdd(DAdd(DAdd(DMul(el(mat, i), x), DMul(el(mat, 4 + i), y)),
                            DMul(el(mat, 8 + i), z)), el(mat, 12 + i))
        out == IF mat.ops # <<>>
               THEN [mat EXCEPT !.ops = Append(mat.ops, [op |-> "mat4_translate", v |-> v])]
               ELSE Concrete([i \in 1 .. 16 |->
                        IF i <= 12 THEN (IF alias = "other" THEN dest.m[i] ELSE mat.m[i])
                        ELSE row(i - 13)])
    IN  IF alias = "other"
        THEN [ret |-> "dest", mat |-> mat, dest |-> out]
        ELSE [ret |-> "mat", mat |-> out, dest |-> IF alias = "same" THEN out ELSE dest]

\* mat4_translate(dest, mat, v)
mat4_translate(alias, dest, mat, v) ==
    LET x == v[1]
        y == v[2]
        z == v[3]
    IN  IF alias # "other"
        THEN LET m12 == DAdd(DAdd(DAdd(DMul(el(mat, 0), x), DMul(el(mat, 4), y)),
                                  DMul(el(mat, 8), z)), el(mat, 12))
                 m13 == DAdd(DAdd(DAdd(DMul(el(mat, 1), x), DMul(el(mat, 5), y)),
                                  DMul(el(mat, 9), z)), el(mat, 13))
                 m14 == DAdd(DAdd(DAdd(DMul(el(mat, 2), x), DMul(el(mat, 6), y)),
                                  DMul(el(mat, 10), z)), el(mat, 14))
                 m15 == DAdd(DAdd(DAdd(DMul(el(mat, 3), x), DMul(el(mat, 7), y)),
                                  DMul(el(mat, 11), z)), el(mat, 15))
                 out == IF mat.ops # <<>>
                        THEN [mat EXCEPT !.ops = Append(mat.ops,
                                            [op |-> "mat4_translate", v |-> v])]
                        ELSE [mat EXCEPT !.m[13] = m12, !.m[14] = m13,
                                         !.m[15] = m14, !.m[16] = m15]
             IN  [ret |-> "mat", mat |-> out,
                  dest |-> IF alias = "same" THEN out ELSE dest]
        ELSE LET a00 == el(mat, 0)
                 a01 == el(mat, 1)
                 a02 == el(mat, 2)
                 a03 == el(mat, 3)
                 a10 == el(mat, 4)
                 a11 == el(mat, 5)
                 a12 == el(mat, 6)
                 a13 == el(mat, 7)
                 a20 == el(mat, 8)
                 a21 == el(mat, 9)
                 a22 == el(mat, 10)
                 a23 == el(mat, 11)
                 out == IF mat.ops # <<>>
                        THEN [mat EXCEPT !.ops = Append(mat.ops,
                                            [op |-> "mat4_translate", v |-> v])]
                        ELSE Concrete(
                          <<a00, a01, a02, a03, a10, a11, a12, a13,
                            a20, a21, a22, a23,
                            DAdd(DAdd(DAdd(DMul(a00, x), DMul(a10, y)), DMul(a20, z)),
                                 el(mat, 12)),
                            DAdd(DAdd(DAdd(DMul(a01, x), DMul(a11, y)), DMul(a21, z)),
                                 el(mat, 13)),
                            DAdd(DAdd(DAdd(DMul(a02, x), DMul(a12, y)), DMul(a22, z)),
                                 el(mat, 14)),
                            DAdd(DAdd(DAdd(DMul(a03, x), DMul(a13, y)), DMul(a23, z)),
                                 el(mat, 15))>>)
             IN  [ret |-> "dest", mat |-> mat, dest |-> out]

\* sqrt(x * x + y * y + z * z) == 0
ZeroLength(axis) ==
    DIsZero(DAdd(DAdd(DMul(axis.v[1], axis.v[1]), DMul(axis.v[2], axis.v[2])),
                 DMul(axis.v[3], axis.v[3])))

ZeroMatrix == Concrete([i \in 1 .. 16 |-> DZero])

\* a call of mat4_rotate or mat4_inverse that wrote `out`: into mat itself
\* when dest is null or is mat, into dest otherwise; it returns dest
Written(alias, dest, mat, out) ==
    IF alias = "other"
    THEN [ret |-> "dest", mat |-> mat, dest |-> out]
    ELSE [ret |-> "dest", mat |-> out, dest |-> IF alias = "same" THEN out ELSE dest]

\* a failing call that clears the matrix it was to write before it returns
Failed_ClearsDest(alias, dest, mat) ==
    IF alias = "other"
    THEN [ret |-> "null", mat |-> mat, dest |-> ZeroMatrix]
    ELSE [ret |-> "null", mat |-> ZeroMatrix,
          dest |-> IF alias = "same" THEN ZeroMatrix ELSE dest]

\* `return NULL;` of mat4_rotate and mat4_inverse: nothing was written
Failed(alias, dest, mat) == [ret |-> "null", mat |-> mat, dest |-> dest]

\* b00 .. b22 of mat4_rotate, the rotation matrix, from the axis, s = sin,
\* c = cos and t = 1 - c
RotationElements(x, y, z, s, c, t) ==
    <<DAdd(DMul(DMul(x, x), t), c),
      DAdd(DMul(DMul(y, x), t), DMul(z, s)),
      DSub(DMul(DMul(z, x), t), DMul(y, s)),
      DSub(DMul(DMul(x, y), t), DMul(z, s)),
      DAdd(DMul(DMul(y, y), t), c),
      DAdd(DMul(DMul(z, y), t), DMul(x, s)),
      DAdd(DMul(DMul(x, z), t), DMul(y, s)),
      DSub(DMul(DMul(y, z), t), DMul(x, s)),
      DAdd(DMul(DMul(z, z), t), c)>>

\* p * u + q * v + r * w
Dot3(p, u, q, v, r, w) == DAdd(DAdd(DMul(p, u), DMul(q, v)), DMul(r, w))

\* the elements 0 .. 11 mat4_rotate writes: the upper three rows of m
\* multiplied by the rotation matrix b
RotatedRows(m, b) ==
    <<Dot3(m[1], b[1], m[5], b[2], m[9], b[3]),
      Dot3(m[2], b[1], m[6], b[2], m[10], b[3]),
      Dot3(m[3], b[1], m[7], b[2], m[11], b[3]),
      Dot3(m[4], b[1], m[8], b[2], m[12], b[3]),
      Dot3(m[1], b[4], m[5], b[5], m[9], b[6]),
      Dot3(m[2], b[4], m[6], b[5], m[10], b[6]),
      Dot3(m[3], b[4], m[7], b[5], m[11], b[6]),
      Dot3(m[4], b[4], m[8], b[5], m[12], b[6]),
      Dot3(m[1], b[7], m[5], b[8], m[9], b[9]),
      Dot3(m[2], b[7], m[6], b[8], m[10], b[9]),
      Dot3(m[3], b[7], m[7], b[8], m[11], b[9]),
      Dot3(m[4], b[7], m[8], b[8], m[12], b[9])>>

\* mat with its elements 0 .. 11 replaced
WithRows(mat, rows) ==
    [mat EXCEPT !.m = [i \in 1 .. 16 |-> IF i <= 12 THEN rows[i] ELSE mat.m[i]]]

\* mat4_rotate(dest, mat, angle, v).  sin and cos are known for angle 0 only
\* (s = 0, c = 1, whence every x, y, z occurs in a product with 0 and the
\* division by len does not show); any other rotation is recorded in ops.
\* An axis holding a NaN has a NaN length, which passes the test of the
\* length and makes each of the twelve elements written a NaN.
mat4_rotate(alias, dest, mat, angle, axis) ==
    IF ZeroLength(axis)
    THEN Failed(alias, dest, mat)
    ELSE IF DIsNaN(axis.v[1]) \/ DIsNaN(axis.v[2]) \/ DIsNaN(axis.v[3])
    THEN Written(alias, dest, mat, WithRows(mat, [i \in 1 .. 12 |-> NaN]))
    ELSE IF DIsZero(angle) /\ mat.ops = <<>>
    THEN Written(alias, dest, mat,
                 WithRows(mat, RotatedRows(mat.m,
                     RotationElements(axis.v[1], axis.v[2], axis.v[3],
                                      DZero, DOne, DSub(DOne, DOne)))))
    ELSE IF DIsZero(angle)
    THEN Written(alias, dest, mat, mat)
    ELSE Written(alias, dest, mat,
                 [mat EXCEPT !.ops = Append(mat.ops,
                     [op |-> "mat4_rotate", angle |-> angle, axis |-> axis])])

\* b00 .. b11 of mat4_inverse, lines 210-221, from the 16 elements
Minors(m) ==
    <<DSub(DMul(m[1], m[6]), DMul(m[2], m[5])),
      DSub(DMul(m[1], m[7]), DMul(m[3], m[5])),
      DSub(DMul(m[1], m[8]), DMul(m[4], m[5])),
      DSub(DMul(m[2], m[7]), DMul(m[3], m[6])),
      DSub(DMul(m[2], m[8]), DMul(m[4], m[6])),
      DSub(DMul(m[3], m[8]), DMul(m[4], m[7])),
      DSub(DMul(m[9], m[14]), DMul(m[10], m[13])),
      DSub(DMul(m[9], m[15]), DMul(m[11], m[13])),
      DSub(DMul(m[9], m[16]), DMul(m[12], m[13])),
      DSub(DMul(m[10], m[15]), DMul(m[11], m[14])),
      DSub(DMul(m[10], m[16]), DMul(m[12], m[14])),
      DSub(DMul(m[11], m[16]), DMul(m[12], m[15]))>>

\* d = b00 * b11 - b01 * b10 + b02 * b09 + b03 * b08 - b04 * b07 + b05 * b06
MinorsDeterminant(b) ==
    DAdd(DSub(DAdd(DAdd(DSub(DMul(b[1], b[12]), DMul(b[2], b[11])),
                        DMul(b[3], b[10])), DMul(b[4], b[9])),
              DMul(b[5], b[8])), DMul(b[6], b[7]))

\* the determinant mat4_inverse computes
Determinant(mat) == MinorsDeterminant(Minors(mat.m))

\* p * q - r * s + t * u
Cofactor(p, q, r, s, t, u) == DAdd(DSub(DMul(p, q), DMul(r, s)), DMul(t, u))

\* the 16 elements mat4_inverse writes, lines 227-242, from the elements m,
\* b00 .. b11 and invDet
InverseElements(m, b, invDet) ==
    <<DMul(Cofactor(m[6], b[12], m[7], b[11], m[8], b[10]), invDet),
      DMul(Cofactor(DNeg(m[2]), b[12], DNeg(m[3]), b[11], DNeg(m[4]), b[10]), invDet),
      DMul(Cofactor(m[14], b[6], m[15], b[5], m[16], b[4]), invDet),
      DMul(Cofactor(DNeg(m[10]), b[6], DNeg(m[11]), b[5], DNeg(m[12]), b[4]), invDet),
      DMul(Cofactor(DNeg(m[5]), b[12], DNeg(m[7]), b[9], DNeg(m[8]), b[8]), invDet),
      DMul(Cofactor(m[1], b[12], m[3], b[9], m[4], b[8]), invDet),
      DMul(Cofactor(DNeg(m[13]), b[6], DNeg(m[15]), b[3], DNeg(m[16]), b[2]), invDet),
      DMul(Cofactor(m[9], b[6], m[11], b[3], m[12], b[2]), invDet),
      DMul(Cofactor(m[5], b[11], m[6], b[9], m[8], b[7]), invDet),
      DMul(Cofactor(DNeg(m[1]), b[11], DNeg(m[2]), b[9], DNeg(m[4]), b[7]), invDet),
      DMul(Cofactor(m[13], b[5], m[14], b[3], m[16], b[1]), invDet),
      DMul(Cofactor(DNeg(m[9]), b[5], DNeg(m[10]), b[3], DNeg(m[12]), b[1]), invDet),
      DMul(Cofactor(DNeg(m[5]), b[10], DNeg(m[6]), b[8], DNeg(m[7]), b[7]), invDet),
      DMul(Cofactor(m[1], b[10], m[2], b[8], m[3], b[7]), invDet),
      DMul(Cofactor(DNeg(m[13]), b[4], DNeg(m[14]), b[2], DNeg(m[15]), b[1]), invDet),
      DMul(Cofactor(m[9], b[4], m[10], b[2], m[11], b[1]), invDet)>>

\* what mat4_inverse leaves and returns for the determinant d
InverseFor(alias, dest, mat, b, d) ==
    IF DIsZero(d)
    THEN Failed(alias, dest, mat)
    ELSE IF mat.ops = <<>> /\ (DIsNaN(d) \/ DAbs(d) = DOne)
    THEN Written(alias, dest, mat, Concrete(InverseElements(mat.m, b, d)))
    ELSE Written(alias, dest, mat,
                 [mat EXCEPT !.ops = Append(mat.ops, [op |-> "mat4_inverse"])])

InverseOf(alias, dest, mat, b) ==
    InverseFor(alias, dest, mat, b, MinorsDeterminant(b))

\* mat4_inverse(dest, mat).  invDet = 1 / d is a decimal for d = 1 and
\* d = -1 (and NaN for NaN), where it equals d; the inverse for any other d,
\* and of a matrix with ops, is recorded in ops.
mat4_inverse(alias, dest, mat) == InverseOf(alias, dest, mat, Minors(mat.m))

----------------------------------------------------------------------------
(* Layout::FramebufferLayout values the window can be given *)

Off == "Off"

SideBySide == "SideBySide"

CardboardVR == "CardboardVR"

Rect(l, t, r, b) == [left |-> l, top |-> t, right |-> r, bottom |-> b]

GetWidth(rect) == rect.right - rect.left

Layout(w, h, top, bot, rot, shift, rightEye) ==
    [width |-> w, height |-> h, top_screen |-> top, bottom_screen |-> bot,
     is_rotated |-> rot,
     cardboard |-> [user_x_shift |-> shift, bottom_screen_right_eye |-> rightEye]]

\* <<top_screen, bottom_screen>> placements with the cardboard sub-record unused
\* (stereo Off or SideBySide): stacked, stacked with an odd right edge, top
\* beside the bottom screen, the two swapped, single-screen (the rectangles
\* overlap), and a custom layout with a one-pixel-wide bottom screen
PlainPlacements ==
    { <<Rect(3, 0, 5, 1), Rect(1, 2, 7, 4)>>,
      <<Rect(3, 0, 5, 1), Rect(1, 2, 6, 4)>>,
      <<Rect(2, 1, 4, 2), Rect(4, 1, 8, 3)>>,
      <<Rect(4, 1, 6, 2), Rect(0, 1, 4, 3)>>,
      <<Rect(2, 1, 4, 2), Rect(2, 1, 6, 3)>>,
      <<Rect(3, 0, 5, 1), Rect(2, 2, 3, 4)>> }

PlainLayouts ==
    { Layout(8, 4, p[1], p[2], rot, 0, 0) : p \in PlainPlacements, rot \in BOOLEAN }

\* <<bottom_screen, user_x_shift, bottom_screen_right_eye>> of layouts passed
\* through GetCardboardSettings: the left eye's screen lies in the left half
\* of the framebuffer, the right eye's copy starts at
\* bottom_screen_right_eye + width / 2.  In the first three placements
\* bottom_screen_right_eye = bottom_screen.left - 2 * user_x_shift; in the last
\* one the three fields, each truncated to an integer on its own, put the
\* right eye's copy one pixel further left.
CardboardPlacements ==
    { <<Rect(1, 2, 3, 4), 0, 1>>,
      <<Rect(2, 2, 4, 4), 1, 0>>,
      <<Rect(0, 2, 2, 4), -1, 2>>,
      <<Rect(2, 2, 4, 4), 0, 1>> }

CardboardLayouts ==
    { Layout(8, 4, Rect(1, 0, 3, 1), p[1], rot, p[2], p[3]) :
        p \in CardboardPlacements, rot \in BOOLEAN }

\* the layouts UpdateCurrentFramebufferLayout can install under a stereo option
LayoutsFor(r3d) == IF r3d = CardboardVR THEN CardboardLayouts ELSE PlainLayouts

StereoRenderOption == {Off, SideBySide, CardboardVR}

PixelsX == 0 .. MaxX

PixelsY == 0 .. MaxY

----------------------------------------------------------------------------
(* CoordinateMapper *)

\* IsWithinTopScreen: <<hit, norm_x, norm_y>>; norm_x / norm_y are written
\* only on a hit
IsWithinTopScreen(layout, fbx, fby) ==
    IF /\ ULe(layout.top_screen.left, fbx) /\ ULt(fbx, layout.top_screen.right)
       /\ ULe(layout.top_screen.top, fby) /\ ULt(fby, layout.top_screen.bottom)
    THEN [hit |-> TRUE,
          norm_x |-> IntToFloat(fbx - layout.top_screen.left),
          norm_y |-> IntToFloat(fby - layout.top_screen.top)]
    ELSE [hit |-> FALSE, norm_x |-> FZero, norm_y |-> FZero]


\* IsWithinTouchscreen with the right eye's SideBySide bounds taken as
\* (edge + width) / 2 instead of edge / 2 + width / 2
IsWithinTouchscreen_HalvedSum(layout, r3d, framebuffer_x, framebuffer_y) ==
    LET b == layout.bottom_screen
        yIn == ULe(b.top, framebuffer_y) /\ ULt(framebuffer_y, b.bottom)
    IN  IF r3d = SideBySide
        THEN /\ yIn
             /\ \/ /\ ULe(b.left \div 2, framebuffer_x)
                   /\ ULt(framebuffer_x, b.right \div 2)
                \/ /\ ULe((b.left + layout.width) \div 2, framebuffer_x)
                   /\ ULt(framebuffer_x, (b.right + layout.width) \div 2)
        ELSE IF r3d = CardboardVR
        THEN /\ yIn
             /\ \/ /\ ULe(b.left, framebuffer_x)
                   /\ ULt(framebuffer_x, b.right)
                \/ /\ ULe(layout.cardboard.bottom_screen_right_eye
                            + (layout.width \div 2), framebuffer_x)
                   /\ ULt(framebuffer_x, layout.cardboard.bottom_screen_right_eye
                            + GetWidth(b) + (layout.width \div 2))
        ELSE /\ yIn
             /\ ULe(b.left, framebuffer_x)
             /\ ULt(framebuffer_x, b.right)

IsWithinTouchscreen(layout, r3d, framebuffer_x, framebuffer_y) ==
    LET b == layout.bottom_screen
        yIn == ULe(b.top, framebuffer_y) /\ ULt(framebuffer_y, b.bottom)
    IN  IF r3d = SideBySide
        THEN /\ yIn
             /\ \/ /\ ULe(b.left \div 2, framebuffer_x)
                   /\ ULt(framebuffer_x, b.right \div 2)
                \/ /\ ULe((b.left \div 2) + (layout.width \div 2), framebuffer_x)
                   /\ ULt(framebuffer_x, (b.right \div 2) + (layout.width \div 2))
        ELSE IF r3d = CardboardVR
        THEN /\ yIn
             /\ \/ /\ ULe(b.left, framebuffer_x)
                   /\ ULt(framebuffer_x, b.right)
                \/ /\ ULe(layout.cardboard.bottom_screen_right_eye
                            + (layout.width \div 2), framebuffer_x)
                   /\ ULt(framebuffer_x, layout.cardboard.bottom_screen_right_eye
                            + GetWidth(b) + (layout.width \div 2))
        ELSE /\ yIn
             /\ ULe(b.left, framebuffer_x)
             /\ ULt(framebuffer_x, b.right)

\* the stereo horizontal-offset correction shared by ClipToTouchScreen and
\* TouchPressed
StereoCorrectX(layout, r3d, x) ==
    IF ULe(layout.width \div 2, x)
    THEN IF r3d = SideBySide
         THEN x - (layout.width \div 2)
         ELSE IF r3d = CardboardVR
         THEN x - ((layout.width \div 2) - (layout.cardboard.user_x_shift * 2))
         ELSE x
    ELSE x


\* ClipToTouchScreen clamping to the exclusive right and bottom edges
ClipToTouchScreen_ExclusiveEdge(layout, r3d, new_x, new_y) ==
    LET b == layout.bottom_screen
        x1 == StereoCorrectX(layout, r3d, new_x)
        x2 == IF r3d = SideBySide
              THEN UMin(UMax(x1, b.left \div 2), b.right \div 2)
              ELSE UMin(UMax(x1, b.left), b.right)
        y2 == UMin(UMax(new_y, b.top), b.bottom)
    IN  <<x2, y2>>

ClipToTouchScreen(layout, r3d, new_x, new_y) ==
    LET b == layout.bottom_screen
        x1 == StereoCorrectX(layout, r3d, new_x)
        x2 == IF r3d = SideBySide
              THEN UMin(UMax(x1, b.left \div 2), (b.right \div 2) - 1)
              ELSE UMin(UMax(x1, b.left), b.right - 1)
        y2 == UMin(UMax(new_y, b.top), b.bottom - 1)
    IN  <<x2, y2>>


\* MapTouch without the subtraction of the bottom screen's left / top edge
MapTouch_NoOffset(layout, r3d, framebuffer_x, framebuffer_y) ==
    LET b == layout.bottom_screen
        x == StereoCorrectX(layout, r3d, framebuffer_x)
        nx == IF r3d = SideBySide
              THEN FDiv(IntToFloat(x), (b.right \div 2) - (b.left \div 2))
              ELSE FDiv(IntToFloat(x), b.right - b.left)
        ny == FDiv(IntToFloat(framebuffer_y), b.bottom - b.top)
    IN  IF ~layout.is_rotated
        THEN [touch_pressed |-> TRUE, touch_x |-> FOneMinus(ny), touch_y |-> nx]
        ELSE [touch_pressed |-> TRUE, touch_x |-> nx, touch_y |-> ny]

\* MapTouch mirroring before the swap: touch_x = ny_raw, touch_y = 1 - nx_raw
MapTouch_MirrorBeforeSwap(layout, r3d, framebuffer_x, framebuffer_y) ==
    LET b == layout.bottom_screen
        x == StereoCorrectX(layout, r3d, framebuffer_x)
        nx == IF r3d = SideBySide
              THEN FDiv(IntToFloat(x - (b.left \div 2)),
                        (b.right \div 2) - (b.left \div 2))
              ELSE FDiv(IntToFloat(x - b.left), b.right - b.left)
        ny == FDiv(IntToFloat(framebuffer_y - b.top), b.bottom - b.top)
    IN  IF ~layout.is_rotated
        THEN [touch_pressed |-> TRUE, touch_x |-> ny, touch_y |-> FOneMinus(nx)]
        ELSE [touch_pressed |-> TRUE, touch_x |-> nx, touch_y |-> ny]

\* the TouchState TouchPressed writes for an accepted pixel
MapTouch(layout, r3d, framebuffer_x, framebuffer_y) ==
    LET b == layout.bottom_screen
        x == StereoCorrectX(layout, r3d, framebuffer_x)
        nx == IF r3d = SideBySide
              THEN FDiv(IntToFloat(x - (b.left \div 2)),
                        (b.right \div 2) - (b.left \div 2))
              ELSE FDiv(IntToFloat(x - b.left), b.right - b.left)
        ny == FDiv(IntToFloat(framebuffer_y - b.top), b.bottom - b.top)
    IN  IF ~layout.is_rotated
        THEN [touch_pressed |-> TRUE, touch_x |-> FOneMinus(ny), touch_y |-> nx]
        ELSE [touch_pressed |-> TRUE, touch_x |-> nx, touch_y |-> ny]

----------------------------------------------------------------------------
(* EmuWindow handlers *)


\* TouchPressed falling through to the touch mapping after a grab
TouchPressedResult_NoShortCircuit(layout, r3d, ts, cs, framebuffer_x, framebuffer_y) ==
    LET topHit == IsWithinTopScreen(layout, framebuffer_x, framebuffer_y)
        cs1 == IF topHit.hit
               THEN [grabbed |-> TRUE,
                     lastX |-> topHit.norm_x, lastY |-> topHit.norm_y,
                     tx |-> topHit.norm_x, ty |-> topHit.norm_y]
               ELSE cs
    IN  IF ~IsWithinTouchscreen(layout, r3d, framebuffer_x, framebuffer_y)
        THEN [ts |-> ts, cs |-> cs1, rets |-> {"false"}]
        ELSE [ts |-> MapTouch(layout, r3d, framebuffer_x, framebuffer_y),
              cs |-> cs1, rets |-> {"true"}]

\* TouchPressed rejecting a pixel outside the touch region only after it has
\* marked the panel pressed
TouchPressedResult_LateReject(layout, r3d, ts, cs, framebuffer_x, framebuffer_y) ==
    LET topHit == IsWithinTopScreen(layout, framebuffer_x, framebuffer_y)
    IN  IF topHit.hit
        THEN [ts |-> ts,
              cs |-> [grabbed |-> TRUE,
                      lastX |-> topHit.norm_x, lastY |-> topHit.norm_y,
                      tx |-> topHit.norm_x, ty |-> topHit.norm_y],
              rets |-> {"true", "false"}]
        ELSE IF ~IsWithinTouchscreen(layout, r3d, framebuffer_x, framebuffer_y)
        THEN [ts |-> [ts EXCEPT !.touch_pressed = TRUE], cs |-> cs,
              rets |-> {"false"}]
        ELSE [ts |-> MapTouch(layout, r3d, framebuffer_x, framebuffer_y),
              cs |-> cs, rets |-> {"true"}]

\* TouchPressed as a function of the state it reads: the TouchState and
\* CameraHackState it leaves and the values it can return.  The grab branch
\* leaves through a `return;` without a value in a function returning bool,
\* so either value can come back.
TouchPressedResult(layout, r3d, ts, cs, framebuffer_x, framebuffer_y) ==
    LET topHit == IsWithinTopScreen(layout, framebuffer_x, framebuffer_y)
    IN  IF topHit.hit
        THEN [ts |-> ts,
              cs |-> [grabbed |-> TRUE,
                      lastX |-> topHit.norm_x, lastY |-> topHit.norm_y,
                      tx |-> topHit.norm_x, ty |-> topHit.norm_y],
              rets |-> {"true", "false"}]
        ELSE IF ~IsWithinTouchscreen(layout, r3d, framebuffer_x, framebuffer_y)
        THEN [ts |-> ts, cs |-> cs, rets |-> {"false"}]
        ELSE [ts |-> MapTouch(layout, r3d, framebuffer_x, framebuffer_y),
              cs |-> cs, rets |-> {"true"}]


\* TouchReleased without the early return of the grab branch
TouchReleasedResult_NoEarlyReturn(ts, cs) ==
    [ts |-> [touch_pressed |-> FALSE, touch_x |-> FZero, touch_y |-> FZero],
     cs |-> [cs EXCEPT !.grabbed = FALSE]]

\* TouchReleased clearing the pressed flag only
TouchReleasedResult_KeepsCoordinates(ts, cs) ==
    IF cs.grabbed
    THEN [ts |-> ts, cs |-> [cs EXCEPT !.grabbed = FALSE]]
    ELSE [ts |-> [ts EXCEPT !.touch_pressed = FALSE], cs |-> cs]

TouchReleasedResult(ts, cs) ==
    IF cs.grabbed
    THEN [ts |-> ts, cs |-> [cs EXCEPT !.grabbed = FALSE]]
    ELSE [ts |-> [touch_pressed |-> FALSE, touch_x |-> FZero, touch_y |-> FZero],
          cs |-> cs]

TouchMovedResult(layout, r3d, ts, cs, framebuffer_x, framebuffer_y) ==
    LET topHit == IsWithinTopScreen(layout, framebuffer_x, framebuffer_y)
        cs1 == IF cs.grabbed /\ topHit.hit
               THEN [cs EXCEPT !.tx = topHit.norm_x, !.ty = topHit.norm_y]
               ELSE cs
        p == IF ~IsWithinTouchscreen(layout, r3d, framebuffer_x, framebuffer_y)
             THEN ClipToTouchScreen(layout, r3d, framebuffer_x, framebuffer_y)
             ELSE <<framebuffer_x, framebuffer_y>>
    IN  IF ~ts.touch_pressed
        THEN [ts |-> ts, cs |-> cs1]
        ELSE LET r == TouchPressedResult(layout, r3d, ts, cs1, p[1], p[2])
             IN  [ts |-> r.ts, cs |-> r.cs]

----------------------------------------------------------------------------
(* EmuWindow::UpdateCameraHack *)

\* the buttons UpdateCameraHack polls: buttons[0..7]
Buttons == {"W", "A", "S", "D", "Shift", "B", "Q", "E"}

keyMoveSpeed == D(10, 0)

keyMoveShiftMult == D(5, 0)

\* 1.0 / 5.0
keyMoveVelocityMult == D(2, 1)

keyMoveDrag == D(8, 1)

keyMoveLowSpeedCap == D(1, 2)

mouseMoveLowSpeedCap == D(1, 4)

mouseLookDrag == DZero

\* mouseDelta[i] / -500.0
MouseScale == D(-2, 3)

fog_disabled == FALSE

\* a clamp without its upper bound
clamp_LowerOnly(v, _min, _max) == DMax(v, _min)

\* clamp, lines 186-188
clamp(v, _min, _max) == DMin(DMax(v, _min), _max)

clampRange(v, r) == clamp(v, DNeg(r), r)

\* isZero(v): v[0], v[1] and v[2] are read, whatever the length of the array
isZero(v) == DIsZero(v[1]) /\ DIsZero(v[2]) /\ DIsZero(v[3])

\* a tx / ty / lastX / lastY as a double; IsWithinTopScreen stores whole
\* numbers of pixels
FloatToDouble(f) == D(f.lo, 0)

\* one axis of keyMovement decaying without the snap to zero
MoveAxis_NoSnap(v, neg, pos, keyMoveVelocity, keyMoveSpeedCap) ==
    IF neg THEN clampRange(DSub(v, keyMoveVelocity), keyMoveSpeedCap)
    ELSE IF pos THEN clampRange(DAdd(v, keyMoveVelocity), keyMoveSpeedCap)
    ELSE DMul(v, keyMoveDrag)

\* one axis of keyMovement, lines 248-276: neg and pos are the buttons of the
\* axis (W/S, A/D, Q/E)
MoveAxis(v, neg, pos, keyMoveVelocity, keyMoveSpeedCap) ==
    IF neg THEN clampRange(DSub(v, keyMoveVelocity), keyMoveSpeedCap)
    ELSE IF pos THEN clampRange(DAdd(v, keyMoveVelocity), keyMoveSpeedCap)
    ELSE LET w == DMul(v, keyMoveDrag)
         IN  IF DLt(DAbs(w), keyMoveLowSpeedCap) THEN DZero ELSE w

\* the elements 1, 5, 9 of a matrix: cameraUp
Up(mat) == [v |-> <<el(mat, 1), el(mat, 5), el(mat, 9)>>, ops |-> mat.ops]

\* Vec3::Normalize: the vector divided by its length; 0 / 0 is NaN
Normalize(axis) ==
    LET len2 == DAdd(DAdd(DMul(axis.v[1], axis.v[1]), DMul(axis.v[2], axis.v[2])),
                     DMul(axis.v[3], axis.v[3]))
    IN  IF DIsZero(len2) \/ DIsNaN(len2) THEN Vec(NaN, NaN, NaN)
        ELSE IF axis.ops = <<>> /\ len2 = DOne THEN axis
        ELSE [axis EXCEPT !.ops = Append(axis.ops, [op |-> "Normalize"])]

\* the movement vector lines 290-297 compose: local x and z velocity plus the
\* vertical velocity along cameraUp
FinalMovement(keyMovement, cameraUp) ==
    <<DAdd(keyMovement[1], DMul(cameraUp.v[1], keyMovement[2])),
      DAdd(DZero, DMul(cameraUp.v[2], keyMovement[2])),
      DAdd(keyMovement[3], DMul(cameraUp.v[3], keyMovement[2]))>>

\* mouseDelta, lines 228-230
MouseDelta(cs) ==
    <<DSub(FloatToDouble(cs.tx), FloatToDouble(cs.lastX)),
      DSub(FloatToDouble(cs.ty), FloatToDouble(cs.lastY))>>

\* lastX / lastY left behind
ConsumeDelta_KeepsLast(cs) == cs

\* lastX = tx; lastY = ty, lines 231-232
ConsumeDelta(cs) == [cs EXCEPT !.lastX = cs.tx, !.lastY = cs.ty]

\* keyMovement after lines 234-276
KeyMovement(keyMovement, keys) ==
    LET keyMoveMult == IF "Shift" \in keys THEN keyMoveShiftMult ELSE DOne
        keyMoveSpeedCap == DMul(keyMoveSpeed, keyMoveMult)
        keyMoveVelocity == DMul(keyMoveSpeedCap, keyMoveVelocityMult)
    IN  <<MoveAxis(keyMovement[1], "A" \in keys, "D" \in keys,
                   keyMoveVelocity, keyMoveSpeedCap),
          MoveAxis(keyMovement[2], "Q" \in keys, "E" \in keys,
                   keyMoveVelocity, keyMoveSpeedCap),
          MoveAxis(keyMovement[3], "W" \in keys, "S" \in keys,
                   keyMoveVelocity, keyMoveSpeedCap)>>

\* the reset button not looked at
ResetWorld_Ignored(keys, worldMatrix) == worldMatrix

\* if (keyB) mat4_identity(worldMatrix), lines 280-282
ResetWorld(keys, worldMatrix) ==
    IF "B" \in keys THEN mat4_identity ELSE worldMatrix

\* mouseMovement[i] += mouseDelta[i] / -500.0, lines 305-306
Accumulate(mouseMovement, mouseDelta) ==
    <<DAdd(mouseMovement[1], DMul(mouseDelta[1], MouseScale)),
      DAdd(mouseMovement[2], DMul(mouseDelta[2], MouseScale))>>

\* the drag and the snap of mouseMovement, lines 317-322
DecayLook(mouseMovement) ==
    LET m0 == DMul(mouseMovement[1], mouseLookDrag)
        m1 == DMul(mouseMovement[2], mouseLookDrag)
    IN  <<IF DLt(DAbs(m0), mouseMoveLowSpeedCap) THEN DZero ELSE m0,
          IF DLt(DAbs(m1), mouseMoveLowSpeedCap) THEN DZero ELSE m1>>

\* worldMatrix and the calls made so far (look), with the call of mat4_rotate
\* that returned r added
Rotated(look, angle, axis, r) ==
    [worldMatrix |-> r.mat,
     calls |-> Append(look.calls, [fn |-> "mat4_rotate", angle |-> angle,
                                   axis |-> axis, ret |-> r.ret])]

\* mat4_rotate(worldMatrix, worldMatrix, angle, axis)
RotateWorld(look, angle, axis) ==
    Rotated(look, angle, axis,
            mat4_rotate("same", look.worldMatrix, look.worldMatrix, angle, axis))

\* the rotation block with the pitch applied before the yaw
LookAround_PitchFirst(worldMatrix, mouseMovement, cameraUp, beyond) ==
    IF isZero(mouseMovement \o <<beyond>>)
    THEN [worldMatrix |-> worldMatrix, calls |-> <<>>]
    ELSE RotateWorld(RotateWorld([worldMatrix |-> worldMatrix, calls |-> <<>>],
                         mouseMovement[2], Vec(DOne, DZero, DZero)),
                 mouseMovement[1], Normalize(cameraUp))

\* the rotation block, lines 308-315: the yaw about the normalized cameraUp,
\* then the pitch about worldUp = (1, 0, 0).  isZero reads a third double
\* behind the two of mouseMovement: `beyond` is whatever that read yields.
LookAround(worldMatrix, mouseMovement, cameraUp, beyond) ==
    IF isZero(mouseMovement \o <<beyond>>)
    THEN [worldMatrix |-> worldMatrix, calls |-> <<>>]
    ELSE RotateWorld(RotateWorld([worldMatrix |-> worldMatrix, calls |-> <<>>],
                         mouseMovement[1], Normalize(cameraUp)),
                 mouseMovement[2], Vec(DOne, DZero, DZero))

\* lines 325-328: mat4_inverse returned `inverse`, whatever it returned, and
\* SetRenderHacks is given the input
Published(cs, mouseDelta, keyMovement, accumulated, moving, look, inverse) ==
    [fps |-> [worldMatrix |-> look.worldMatrix,
              keyMovement |-> keyMovement,
              mouseMovement |-> DecayLook(accumulated)],
     cs |-> ConsumeDelta(cs),
     input |-> [view_matrix |-> inverse.dest, disable_fog |-> fog_disabled],
     mouseDelta |-> mouseDelta,
     calls |-> moving \o look.calls
               \o <<[fn |-> "mat4_inverse", ret |-> inverse.ret],
                    [fn |-> "SetRenderHacks"]>>]

\* line 325: mat4_inverse(view_matrix, worldMatrix)
Inverted(cs, env, mouseDelta, keyMovement, accumulated, moving, look) ==
    Published(cs, mouseDelta, keyMovement, accumulated, moving, look,
              mat4_inverse("other", env.view_matrix, look.worldMatrix))

\* lines 299-315: the translation by keyMovement unless it is zero, then the
\* rotation block
MoveAndLook(fps, cs, env, mouseDelta, keyMovement, reset, accumulated) ==
    IF isZero(keyMovement)
    THEN Inverted(cs, env, mouseDelta, keyMovement, accumulated, <<>>,
                  LookAround(reset, accumulated, Up(reset), env.beyond))
    ELSE Inverted(cs, env, mouseDelta, keyMovement, accumulated,
                  <<[fn |-> "mat4_translate", v |-> keyMovement]>>,
                  LookAround(mat4_translate("same", reset, reset, keyMovement).mat,
                             accumulated, Up(reset), env.beyond))

\* lines 305-306, with the mouseDelta of lines 228-230
Accumulated(fps, cs, env, mouseDelta, keyMovement, reset) ==
    MoveAndLook(fps, cs, env, mouseDelta, keyMovement, reset,
           Accumulate(fps.mouseMovement, mouseDelta))

\* UpdateCameraHack() as a function of the state it reads, the buttons held
\* and env: `beyond`, the double behind mouseMovement, and `view_matrix`, the
\* content of the RenderHacksInput before mat4_inverse writes it.  It yields
\* the FpsCameraController and CameraHackState it leaves, the input it hands
\* to SetRenderHacks, mouseDelta, and the library calls it made, in order.
UpdateCameraHackResult(fps, cs, keys, env) ==
    Accumulated(fps, cs, env, MouseDelta(cs),
                KeyMovement(fps.keyMovement, keys),
                ResetWorld(keys, fps.worldMatrix))

----------------------------------------------------------------------------
(* The window as a state machine *)

\* the record of a call: the handler, touch_pressed and grabbed at its entry,
\* and (for the mapper probes) the pixel it was given
Call(op, x, y) ==
    [op |-> op, pressed |-> touch_state.touch_pressed,
     grabbed |-> camera_hack_state.grabbed, x |-> x, y |-> y]

NoCall == [op |-> "none", pressed |-> FALSE, grabbed |-> FALSE, x |-> 0, y |-> 0]

\* no call of ReplaceAll is in progress
NoReplaceAll ==
    [pc |-> "none", result |-> <<>>, src |-> <<>>, dest |-> <<>>, pos |-> 0]

InitTouchState == [touch_pressed |-> FALSE, touch_x |-> FZero, touch_y |-> FZero]

InitCameraHackState ==
    [grabbed |-> FALSE, lastX |-> FZero, lastY |-> FZero, tx |-> FZero, ty |-> FZero]

\* the triple GetStatus returns when the TouchState is gone
Neutral == [touch_x |-> FZero, touch_y |-> FZero, touch_pressed |-> FALSE]

InputIdle == [pc |-> "idle", op |-> "none", x |-> 0, y |-> 0, tmp |-> FZero]

\* state: GetStatus holds a shared_ptr to the TouchState; todo: the fields
\* make_tuple has still to read; tuple: the fields read; gone: the last
\* weak_ptr::lock() found no TouchState; status: the last triple returned
PollIdle == [pc |-> "idle", state |-> FALSE, todo |-> {}, gone |-> FALSE,
             tuple |-> Neutral, status |-> Neutral]

\* both threads outside any call, the window open, the TouchState as the
\* constructor made it
InitThreads ==
    /\ mutex = "free"
    /\ input = InputIdle
    /\ poll = PollIdle
    /\ window = "open"
    /\ committed = {InitTouchState}

\* the camera as EmuWindow() leaves it: at the origin, at rest, nothing handed
\* to the renderer, no button held, no tick run
InitFpsCameraController ==
    [worldMatrix |-> mat4_identity,
     keyMovement |-> <<DZero, DZero, DZero>>,
     mouseMovement |-> <<DZero, DZero>>]

\* n: the ticks run; keys: the buttons the last tick found held; before and
\* cs: the controller and the CameraHackState it found; env: what it read
\* that no write had defined; mouseDelta and calls: what it computed and the
\* library calls it made; run: the ticks run in a row with these buttons;
\* from: the keyMovement at the start of that row; events: the changes of
\* the buttons so far; grab: (tx, ty) at the last press that grabbed; sum:
\* the mouseDelta of all ticks since
NoTick(fps, cs) ==
    [n |-> 0, keys |-> {}, before |-> fps, cs |-> cs,
     env |-> [beyond |-> DZero, view_matrix |-> ZeroMatrix],
     mouseDelta |-> <<DZero, DZero>>,
     calls |-> <<>>, run |-> 0, from |-> fps.keyMovement, events |-> 0,
     grab |-> <<FloatToDouble(cs.tx), FloatToDouble(cs.ty)>>,
     sum |-> <<DZero, DZero>>]

InitCamera ==
    /\ fps_camera_controller = InitFpsCameraController
    /\ render_hacks = <<>>
    /\ buttons = {}
    /\ tick = NoTick(InitFpsCameraController, InitCameraHackState)

Init ==
    /\ render_3d \in StereoRenderOption
    /\ framebuffer_layout \in LayoutsFor(render_3d)
    /\ touch_state = InitTouchState
    /\ replace_all = NoReplaceAll
    /\ camera_hack_state = InitCameraHackState
    /\ call = NoCall
    /\ ret = "void"
    /\ InitThreads
    /\ InitCamera

\* what TouchPressed(x, y) does when called in the current state
Pressed(x, y) ==
    TouchPressedResult(framebuffer_layout, render_3d, touch_state,
                       camera_hack_state, x, y)

\* what TouchReleased() does when called in the current state
Released == TouchReleasedResult(touch_state, camera_hack_state)

\* what TouchMoved(x, y) does when called in the current state
Moved(x, y) ==
    TouchMovedResult(framebuffer_layout, render_3d, touch_state,
                     camera_hack_state, x, y)

\* TouchPressed(framebuffer_x, framebuffer_y)
TouchPressedAt(x, y) ==
    LET r == Pressed(x, y)
    IN  /\ touch_state' = r.ts
        /\ camera_hack_state' = r.cs
        /\ ret' \in r.rets
        /\ call' = Call("TouchPressed", 0, 0)
        /\ UNCHANGED <<cameraVars, framebuffer_layout, render_3d, replace_all, threadVars>>

TouchPressed == \E x \in PixelsX, y \in PixelsY : TouchPressedAt(x, y)

TouchReleased ==
    LET r == Released
    IN  /\ touch_state' = r.ts
        /\ camera_hack_state' = r.cs
        /\ ret' = "void"
        /\ call' = Call("TouchReleased", 0, 0)
        /\ UNCHANGED <<cameraVars, framebuffer_layout, render_3d, replace_all, threadVars>>

\* TouchMoved(framebuffer_x, framebuffer_y)
TouchMovedAt(x, y) ==
    LET r == Moved(x, y)
    IN  /\ touch_state' = r.ts
        /\ camera_hack_state' = r.cs
        /\ ret' = "void"
        /\ call' = Call("TouchMoved", 0, 0)
        /\ UNCHANGED <<cameraVars, framebuffer_layout, render_3d, replace_all, threadVars>>

TouchMoved == \E x \in PixelsX, y \in PixelsY : TouchMovedAt(x, y)

Next == TouchPressed \/ TouchReleased \/ TouchMoved

Spec == Init /\ [][Next]_vars

----------------------------------------------------------------------------
(* Properties of the touch flow and the camera-grab flow *)

\* the pixel (x, y) lies in the rectangle rect (left/top inclusive,
\* right/bottom exclusive)
InRect(rect, x, y) ==
    /\ rect.left <= x /\ x < rect.right
    /\ rect.top <= y /\ y < rect.bottom

\* the rational n / d as a float
Rat(n, d) == Float(0, n, d)

top_screen == framebuffer_layout.top_screen

bottom_screen == framebuffer_layout.bottom_screen

\* C1: whenever the touch panel is pressed, touch_x and touch_y lie in
\* [0, 1], under every stereo option and layout.
C1_PressedCoordinatesInUnitRange ==
    touch_state.touch_pressed =>
        InUnit(touch_state.touch_x) /\ InUnit(touch_state.touch_y)

\* C2: with stereo Off and a rotated layout, TouchPressed on a pixel inside
\* bottom_screen and outside top_screen returns true and stores
\* touch_x = (fbx - left) / (right - left), touch_y = (fby - top) / (bottom - top),
\* both in [0, 1], with pressed = true: in every reachable state, for every
\* such pixel.
C2_PressInBottomScreenStoresNormalized ==
    (render_3d = Off /\ framebuffer_layout.is_rotated) =>
        \A x \in PixelsX, y \in PixelsY :
            (InRect(bottom_screen, x, y) /\ ~InRect(top_screen, x, y))
            => LET r == Pressed(x, y)
               IN  /\ r.rets = {"true"}
                   /\ r.ts.touch_pressed
                   /\ r.ts.touch_x
                        = Rat(x - bottom_screen.left,
                              bottom_screen.right - bottom_screen.left)
                   /\ r.ts.touch_y
                        = Rat(y - bottom_screen.top,
                              bottom_screen.bottom - bottom_screen.top)
                   /\ InUnit(r.ts.touch_x)
                   /\ InUnit(r.ts.touch_y)

\* C2 witness: the press of pixel (4, 3) on the stacked rotated layout with
\* stereo Off has stored (1/2, 1/2).
C2_Witness ==
    /\ call.op = "TouchPressed"
    /\ ~call.pressed
    /\ render_3d = Off
    /\ framebuffer_layout.is_rotated
    /\ bottom_screen = Rect(1, 2, 7, 4)
    /\ ret = "true"
    /\ touch_state = [touch_pressed |-> TRUE, touch_x |-> Rat(1, 2), touch_y |-> Rat(1, 2)]

\* C3: a TouchPressed whose pixel lies inside top_screen sets grabbed, sets
\* tx/ty to the offset from the top screen's top-left corner, sets lastX/lastY
\* to tx/ty, and leaves TouchState as it was: in every reachable state, for
\* every such pixel.
C3_PressInTopScreenGrabsOnly ==
    \A x \in PixelsX, y \in PixelsY :
        InRect(top_screen, x, y)
        => LET r == Pressed(x, y)
           IN  /\ r.cs.grabbed
               /\ r.cs.tx = Rat(x - top_screen.left, 1)
               /\ r.cs.ty = Rat(y - top_screen.top, 1)
               /\ r.cs.lastX = r.cs.tx
               /\ r.cs.lastY = r.cs.ty
               /\ r.ts = touch_state

\* C3 witness: a press has grabbed the camera at offset 1 from the top screen's
\* left edge while a touch was held, and the touch is still held.
C3_Witness ==
    /\ call.op = "TouchPressed"
    /\ call.pressed
    /\ ~call.grabbed
    /\ camera_hack_state.grabbed
    /\ camera_hack_state.tx = Rat(1, 1)
    /\ camera_hack_state.lastX = Rat(1, 1)
    /\ touch_state.touch_pressed

\* C4: a TouchReleased called while grabbed is true sets grabbed = false and
\* changes nothing else.
C4_ReleaseWhileGrabbedOnlyUngrabs ==
    [][(camera_hack_state.grabbed /\ TouchReleased)
        => /\ camera_hack_state' = [camera_hack_state EXCEPT !.grabbed = FALSE]
           /\ touch_state' = touch_state]_vars

\* C4 witness: a release that found the camera grabbed and a touch held has
\* left the touch held.
C4_Witness ==
    /\ call.op = "TouchReleased"
    /\ call.grabbed
    /\ call.pressed
    /\ ~camera_hack_state.grabbed
    /\ touch_state.touch_pressed

C6_PressOutsideRejected ==
    \A x \in PixelsX, y \in PixelsY :
        ( /\ ~InRect(top_screen, x, y)
          /\ ~IsWithinTouchscreen(framebuffer_layout, render_3d, x, y) )
        => LET r == Pressed(x, y)
           IN  /\ r.rets = {"false"}
               /\ r.ts = touch_state
               /\ r.cs = camera_hack_state

\* C6 witness: a press was rejected while a touch was held and the camera
\* grabbed, and both still are.
C6_Witness ==
    /\ call.op = "TouchPressed"
    /\ ret = "false"
    /\ call.pressed
    /\ call.grabbed
    /\ touch_state.touch_pressed
    /\ camera_hack_state.grabbed

\* C7: on a non-rotated layout an accepted touch-screen press stores
\* touch_x = 1 - ny_raw and touch_y = nx_raw, (nx_raw, ny_raw) being what the
\* same press stores on the otherwise identical rotated layout: in every
\* reachable state, for every accepted pixel.
C7_NonRotatedSwapsAndMirrors ==
    ~framebuffer_layout.is_rotated =>
        \A x \in PixelsX, y \in PixelsY :
            ( /\ ~InRect(top_screen, x, y)
              /\ IsWithinTouchscreen(framebuffer_layout, render_3d, x, y) )
            => LET r == Pressed(x, y)
                   raw == TouchPressedResult(
                              [framebuffer_layout EXCEPT !.is_rotated = TRUE],
                              render_3d, touch_state, camera_hack_state, x, y).ts
               IN  /\ r.rets = {"true"}
                   /\ r.ts.touch_pressed
                   /\ raw.touch_pressed
                   /\ r.ts.touch_x = FOneMinus(raw.touch_y)
                   /\ r.ts.touch_y = raw.touch_x

\* C7 witness: the press of pixel (2, 3) on the stacked non-rotated layout has
\* stored (1 - 1/2, 1/6).
C7_Witness ==
    /\ call.op = "TouchPressed"
    /\ render_3d = Off
    /\ ~framebuffer_layout.is_rotated
    /\ bottom_screen = Rect(1, 2, 7, 4)
    /\ touch_state = [touch_pressed |-> TRUE, touch_x |-> Rat(1, 2), touch_y |-> Rat(1, 6)]

\* C8: under SideBySide, for every left-eye pixel (x, y) accepted as a touch,
\* the right-eye pixel (x + width / 2, y) is accepted too and TouchPressed
\* stores the same (touch_x, touch_y) for both.
C8_SideBySideEyesAgree ==
    [][\A x \in PixelsX, y \in PixelsY :
        ( /\ call'.op = "TouchPressed"
          /\ render_3d = SideBySide
          /\ x < framebuffer_layout.width \div 2
          /\ ~InRect(top_screen, x, y)
          /\ IsWithinTouchscreen(framebuffer_layout, render_3d, x, y)
          /\ TouchPressedAt(x, y) )
        => LET r == Pressed(x + (framebuffer_layout.width \div 2), y)
           IN  /\ r.rets = {"true"}
               /\ r.ts = touch_state'
               /\ r.ts.touch_pressed]_vars

----------------------------------------------------------------------------
(* The pure mapper functions, applied once to every pixel of every layout of *)
(* a generated family                                                        *)

\* largest framebuffer width of the generated layouts
MapperWidth == 9

MapperWidths == (MapperWidth - 1) .. MapperWidth

\* every bottom_screen of non-degenerate horizontal extent inside a
\* framebuffer of width w
MapperBottomScreens(w) ==
    { Rect(p[1], 2, p[2], 4) :
        p \in { q \in (0 .. (w - 1)) \X (1 .. w) : q[1] < q[2] } }

\* the layouts of the family under a stereo option; the cardboard sub-record
\* is read under CardboardVR only
MapperLayouts(r3d) ==
    UNION { { Layout(w, 4, Rect(3, 0, 5, 1), b, TRUE, c[1], c[2]) :
                b \in MapperBottomScreens(w),
                c \in IF r3d = CardboardVR THEN {-1, 0, 1} \X {0, 2} ELSE {<<0, 0>>} } :
            w \in MapperWidths }

MapperPixelsX == 0 .. (MapperWidth + 1)

InitMapper ==
    /\ render_3d \in StereoRenderOption
    /\ framebuffer_layout \in MapperLayouts(render_3d)
    /\ touch_state = InitTouchState
    /\ replace_all = NoReplaceAll
    /\ camera_hack_state = InitCameraHackState
    /\ call = NoCall
    /\ ret = "void"
    /\ InitThreads
    /\ InitCamera

\* IsWithinTouchscreen(framebuffer_layout, x, y)
IsWithinTouchscreenCall ==
    /\ call.op = "none"
    /\ \E x \in MapperPixelsX, y \in PixelsY :
        /\ call' = Call("IsWithinTouchscreen", x, y)
        /\ ret' = IF IsWithinTouchscreen(framebuffer_layout, render_3d, x, y)
                  THEN "true" ELSE "false"
    /\ UNCHANGED <<cameraVars, framebuffer_layout, render_3d, replace_all, touch_state, camera_hack_state,
                   threadVars>>

\* ClipToTouchScreen(x, y); the returned tuple is kept in ret
ClipToTouchScreenCall ==
    /\ call.op = "none"
    /\ \E x \in MapperPixelsX, y \in PixelsY :
        /\ call' = Call("ClipToTouchScreen", x, y)
        /\ ret' = ClipToTouchScreen(framebuffer_layout, render_3d, x, y)
    /\ UNCHANGED <<cameraVars, framebuffer_layout, render_3d, replace_all, touch_state, camera_hack_state,
                   threadVars>>

NextMapper == IsWithinTouchscreenCall \/ ClipToTouchScreenCall

SpecMapper == InitMapper /\ [][NextMapper]_vars

\* lo / 2 <= x < hi / 2 for the truncating halves of lo and hi, without a
\* division
InHalved(lo, hi, x) == lo <= 2 * x + 1 /\ 2 * x + 2 <= hi

\* C9: under SideBySide, IsWithinTouchscreen accepts a pixel iff its y is in
\* [top, bottom) and its x is in [left/2, right/2) or in
\* [left/2 + width/2, right/2 + width/2); every x in the gap
\* [right/2, left/2 + width/2) is rejected.
C9_SideBySideRegions ==
    (call.op = "IsWithinTouchscreen" /\ render_3d = SideBySide) =>
        LET half == framebuffer_layout.width \div 2
            yIn == bottom_screen.top <= call.y /\ call.y < bottom_screen.bottom
            leftEye == InHalved(bottom_screen.left, bottom_screen.right, call.x)
            rightEye == /\ call.x >= half
                        /\ InHalved(bottom_screen.left, bottom_screen.right,
                                    call.x - half)
            gap == /\ bottom_screen.right <= 2 * call.x + 1
                   /\ call.x < half
                   /\ 2 * (call.x - half) + 2 <= bottom_screen.left
        IN  /\ (ret = "true") <=> (yIn /\ (leftEye \/ rightEye))
            /\ gap => ret = "false"

\* C9 witness: a right-eye pixel of a bottom screen with odd edges, in a
\* framebuffer of odd width, was accepted.
C9_Witness ==
    /\ call.op = "IsWithinTouchscreen"
    /\ render_3d = SideBySide
    /\ framebuffer_layout.width % 2 = 1
    /\ bottom_screen.left % 2 = 1
    /\ bottom_screen.right % 2 = 1
    /\ call.x = (bottom_screen.left \div 2) + (framebuffer_layout.width \div 2)
    /\ ret = "true"

\* the range ClipToTouchScreen's result is claimed to lie in, and its
\* acceptance by IsWithinTouchscreen
ClipResultInRange ==
    /\ bottom_screen.top <= ret[2] /\ ret[2] <= bottom_screen.bottom - 1
    /\ IF render_3d = SideBySide
       THEN /\ bottom_screen.left \div 2 <= ret[1]
            /\ ret[1] <= (bottom_screen.right \div 2) - 1
       ELSE /\ bottom_screen.left <= ret[1]
            /\ ret[1] <= bottom_screen.right - 1
    /\ IsWithinTouchscreen(framebuffer_layout, render_3d, ret[1], ret[2])

\* C10 as stated: for every pixel and stereo option ClipToTouchScreen returns
\* y' in [top, bottom-1] and x' in [left, right-1] ([left/2, right/2-1] under
\* SideBySide), a point IsWithinTouchscreen accepts.
C10_ClipResultAccepted ==
    call.op = "ClipToTouchScreen" => ClipResultInRange

\* C10 amended: the same, under SideBySide provided left/2 < right/2, i.e. the
\* halved touch region is not empty.
C10_ClipResultAcceptedWhenRegionNonEmpty ==
    ( /\ call.op = "ClipToTouchScreen"
      /\ render_3d = SideBySide => bottom_screen.left \div 2 < bottom_screen.right \div 2 )
    => ClipResultInRange

\* C10 witness: under SideBySide a right-half pixel beyond the halved region
\* was shifted by width/2 and clamped to right/2 - 1, and a pixel above the
\* screen was clamped to its top row.
C10_Witness ==
    /\ call.op = "ClipToTouchScreen"
    /\ render_3d = SideBySide
    /\ bottom_screen.left \div 2 < bottom_screen.right \div 2
    /\ call.x - (framebuffer_layout.width \div 2) > (bottom_screen.right \div 2) - 1
    /\ call.y < bottom_screen.top
    /\ ret = <<(bottom_screen.right \div 2) - 1, bottom_screen.top>>

----------------------------------------------------------------------------
(* The input thread and a thread polling Device::GetStatus, one statement    *)
(* per step.  Only the input thread writes touch_state; camera_hack_state    *)
(* is not read by GetStatus.                                                 *)

\* the pixels of the input events of this specification: one in top_screen,
\* two in bottom_screen, one outside both, one beyond the bottom-right corner
ThreadPixels == {<<3, 0>>, <<1, 2>>, <<4, 3>>, <<0, 1>>, <<8, 4>>}

ThreadLayouts ==
    { Layout(8, 4, Rect(3, 0, 5, 1), Rect(1, 2, 7, 4), rot, 0, 0) : rot \in BOOLEAN }

InitConcurrent ==
    /\ render_3d = Off
    /\ framebuffer_layout \in ThreadLayouts
    /\ touch_state = InitTouchState
    /\ replace_all = NoReplaceAll
    /\ camera_hack_state = InitCameraHackState
    /\ call = NoCall
    /\ ret = "void"
    /\ InitThreads
    /\ InitCamera

\* std::lock_guard on TouchState::mutex taken without waiting for the holder
Acquire_NoExclusion(who) == mutex' = who

\* std::lock_guard guard{touch_state->mutex}: blocks while another thread
\* holds the mutex
Acquire(who) == mutex = "free" /\ mutex' = who

\* the quotient TouchPressed stores in touch_x before the swap, x already
\* corrected for the stereo option
NormX(layout, r3d, x) ==
    LET b == layout.bottom_screen
    IN  IF r3d = SideBySide
        THEN FDiv(IntToFloat(x - (b.left \div 2)), (b.right \div 2) - (b.left \div 2))
        ELSE FDiv(IntToFloat(x - b.left), b.right - b.left)

\* the quotient TouchPressed stores in touch_y before the swap
NormY(layout, y) ==
    LET b == layout.bottom_screen
    IN  FDiv(IntToFloat(y - b.top), b.bottom - b.top)

\* TouchPressed up to its lock_guard, called by `op` with CameraHackState cs:
\* the grab branch, the rejection, or the stereo correction of x; touch_state
\* is not written yet.  done tells whether TouchPressed has returned.
PressEntry(cs, op, x, y) ==
    LET topHit == IsWithinTopScreen(framebuffer_layout, x, y)
    IN  IF topHit.hit
        THEN [done |-> TRUE, rets |-> {"true", "false"}, input |-> InputIdle,
              cs |-> [grabbed |-> TRUE,
                      lastX |-> topHit.norm_x, lastY |-> topHit.norm_y,
                      tx |-> topHit.norm_x, ty |-> topHit.norm_y]]
        ELSE IF ~IsWithinTouchscreen(framebuffer_layout, render_3d, x, y)
        THEN [done |-> TRUE, rets |-> {"false"}, input |-> InputIdle, cs |-> cs]
        ELSE [done |-> FALSE, rets |-> {"true"}, cs |-> cs,
              input |-> [pc |-> "lock", op |-> op,
                         x |-> StereoCorrectX(framebuffer_layout, render_3d, x),
                         y |-> y, tmp |-> FZero]]

\* TouchPressed(x, y), lines 131-147
TouchPressedEnter ==
    /\ input.pc = "idle" /\ window = "open"
    /\ \E p \in ThreadPixels :
        LET e == PressEntry(camera_hack_state, "TouchPressed", p[1], p[2])
        IN  /\ call' = Call("TouchPressed", 0, 0)
            /\ camera_hack_state' = e.cs
            /\ input' = e.input
            /\ IF e.done THEN ret' \in e.rets ELSE ret' = ret
    /\ UNCHANGED <<cameraVars, framebuffer_layout, render_3d, replace_all, touch_state, mutex, poll,
                   window, committed>>

\* TouchMoved(x, y): the grab update, the unlocked read of touch_pressed, the
\* clipping, and TouchPressed up to its lock_guard
TouchMovedEnter ==
    /\ input.pc = "idle" /\ window = "open"
    /\ \E p \in ThreadPixels :
        LET topHit == IsWithinTopScreen(framebuffer_layout, p[1], p[2])
            cs1 == IF camera_hack_state.grabbed /\ topHit.hit
                   THEN [camera_hack_state EXCEPT !.tx = topHit.norm_x,
                                                  !.ty = topHit.norm_y]
                   ELSE camera_hack_state
            q == IF ~IsWithinTouchscreen(framebuffer_layout, render_3d, p[1], p[2])
                 THEN ClipToTouchScreen(framebuffer_layout, render_3d, p[1], p[2])
                 ELSE p
            e == PressEntry(cs1, "TouchMoved", q[1], q[2])
        IN  /\ call' = Call("TouchMoved", 0, 0)
            /\ ret' = "void"
            /\ IF ~touch_state.touch_pressed
               THEN camera_hack_state' = cs1 /\ input' = InputIdle
               ELSE camera_hack_state' = e.cs /\ input' = e.input
    /\ UNCHANGED <<cameraVars, framebuffer_layout, render_3d, replace_all, touch_state, mutex, poll,
                   window, committed>>

\* TouchReleased() up to its lock_guard, lines 174-177
TouchReleasedEnter ==
    /\ input.pc = "idle" /\ window = "open"
    /\ call' = Call("TouchReleased", 0, 0)
    /\ ret' = "void"
    /\ IF camera_hack_state.grabbed
       THEN /\ camera_hack_state' = [camera_hack_state EXCEPT !.grabbed = FALSE]
            /\ input' = InputIdle
       ELSE /\ input' = [InputIdle EXCEPT !.pc = "lock", !.op = "TouchReleased"]
            /\ UNCHANGED camera_hack_state
    /\ UNCHANGED <<cameraVars, framebuffer_layout, render_3d, replace_all, touch_state, mutex, poll,
                   window, committed>>

unwritten ==
    <<cameraVars, framebuffer_layout, render_3d, replace_all, camera_hack_state, call, ret>>

\* the input thread's lock_guard, lines 148 and 179
InputLock ==
    /\ input.pc = "lock"
    /\ Acquire("input")
    /\ input' = [input EXCEPT !.pc = IF input.op = "TouchReleased"
                                     THEN "clear_pressed" ELSE "x"]
    /\ UNCHANGED <<unwritten, touch_state, poll, window, committed>>

\* touch_state->touch_x = ..., lines 149-158
WriteTouchX ==
    /\ input.pc = "x"
    /\ touch_state' = [touch_state EXCEPT
                         !.touch_x = NormX(framebuffer_layout, render_3d, input.x)]
    /\ input' = [input EXCEPT !.pc = "y"]
    /\ UNCHANGED <<unwritten, mutex, poll, window, committed>>

\* touch_state->touch_y = ..., lines 159-161
WriteTouchY ==
    /\ input.pc = "y"
    /\ touch_state' = [touch_state EXCEPT
                         !.touch_y = NormY(framebuffer_layout, input.y)]
    /\ input' = [input EXCEPT !.pc = IF framebuffer_layout.is_rotated
                                     THEN "pressed" ELSE "swap"]
    /\ UNCHANGED <<unwritten, mutex, poll, window, committed>>

\* std::swap(touch_x, touch_y), first half: tmp = touch_x; touch_x = touch_y
SwapFirst ==
    /\ input.pc = "swap"
    /\ touch_state' = [touch_state EXCEPT !.touch_x = touch_state.touch_y]
    /\ input' = [input EXCEPT !.pc = "swap2", !.tmp = touch_state.touch_x]
    /\ UNCHANGED <<unwritten, mutex, poll, window, committed>>

\* std::swap(touch_x, touch_y), second half: touch_y = tmp
SwapSecond ==
    /\ input.pc = "swap2"
    /\ touch_state' = [touch_state EXCEPT !.touch_y = input.tmp]
    /\ input' = [input EXCEPT !.pc = "mirror", !.tmp = FZero]
    /\ UNCHANGED <<unwritten, mutex, poll, window, committed>>

\* touch_state->touch_x = 1.f - touch_state->touch_x, line 165
MirrorTouchX ==
    /\ input.pc = "mirror"
    /\ touch_state' = [touch_state EXCEPT !.touch_x = FOneMinus(touch_state.touch_x)]
    /\ input' = [input EXCEPT !.pc = "pressed"]
    /\ UNCHANGED <<unwritten, mutex, poll, window, committed>>

\* touch_state->touch_pressed = true, line 168
SetTouchPressed ==
    /\ input.pc = "pressed"
    /\ touch_state' = [touch_state EXCEPT !.touch_pressed = TRUE]
    /\ input' = [input EXCEPT !.pc = "unlock"]
    /\ UNCHANGED <<unwritten, mutex, poll, window, committed>>

\* touch_state->touch_pressed = false, line 181
ClearTouchPressed ==
    /\ input.pc = "clear_pressed"
    /\ touch_state' = [touch_state EXCEPT !.touch_pressed = FALSE]
    /\ input' = [input EXCEPT !.pc = "clear_x"]
    /\ UNCHANGED <<unwritten, mutex, poll, window, committed>>

\* TouchReleased without its line 182: touch_x keeps the released touch
ClearTouchX_Skipped ==
    /\ input.pc = "clear_x"
    /\ input' = [input EXCEPT !.pc = "clear_y"]
    /\ UNCHANGED <<unwritten, touch_state, mutex, poll, window, committed>>

\* touch_state->touch_x = 0, line 182
ClearTouchX ==
    /\ input.pc = "clear_x"
    /\ touch_state' = [touch_state EXCEPT !.touch_x = FZero]
    /\ input' = [input EXCEPT !.pc = "clear_y"]
    /\ UNCHANGED <<unwritten, mutex, poll, window, committed>>

\* touch_state->touch_y = 0, line 183
ClearTouchY ==
    /\ input.pc = "clear_y"
    /\ touch_state' = [touch_state EXCEPT !.touch_y = FZero]
    /\ input' = [input EXCEPT !.pc = "unlock"]
    /\ UNCHANGED <<unwritten, mutex, poll, window, committed>>

\* the end of the lock_guard's scope in TouchPressed / TouchReleased: the
\* handler returns and the TouchState it leaves is recorded
InputUnlock ==
    /\ input.pc = "unlock"
    /\ mutex' = "free"
    /\ committed' = committed \cup {touch_state}
    /\ ret' = IF input.op = "TouchPressed" THEN "true" ELSE "void"
    /\ input' = InputIdle
    /\ UNCHANGED <<cameraVars, framebuffer_layout, render_3d, replace_all, camera_hack_state, call,
                   touch_state, poll, window>>

\* ~EmuWindow(): the factory is unregistered and the window's shared_ptr
\* released; the TouchState lives on only while a GetStatus holds it
CloseWindow ==
    /\ input.pc = "idle" /\ window = "open"
    /\ window' = "closed"
    /\ UNCHANGED <<unwritten, touch_state, mutex, input, poll, committed>>

\* Device::GetStatus(): touch_state.lock(), lines 38 and 42
GetStatusEnter ==
    /\ poll.pc = "idle"
    /\ IF window = "open"
       THEN poll' = [poll EXCEPT !.pc = "lock", !.state = TRUE, !.gone = FALSE,
                                 !.todo = {"touch_x", "touch_y", "touch_pressed"}]
       ELSE poll' = [poll EXCEPT !.gone = TRUE, !.status = Neutral]
    /\ UNCHANGED <<unwritten, touch_state, mutex, input, window, committed>>

\* std::lock_guard guard{state->mutex}, line 39
PollLock ==
    /\ poll.pc = "lock"
    /\ Acquire("poll")
    /\ poll' = [poll EXCEPT !.pc = "read"]
    /\ UNCHANGED <<unwritten, touch_state, input, window, committed>>

\* std::make_tuple(state->touch_x, state->touch_y, state->touch_pressed): one
\* field is read, in an order the language leaves open
PollRead ==
    /\ poll.pc = "read"
    /\ \E f \in poll.todo :
        poll' = [poll EXCEPT !.tuple = [poll.tuple EXCEPT ![f] = touch_state[f]],
                             !.todo = poll.todo \ {f},
                             !.pc = IF poll.todo = {f} THEN "unlock" ELSE "read"]
    /\ UNCHANGED <<unwritten, touch_state, mutex, input, window, committed>>

\* the end of GetStatus: guard and state are released, the tuple returned
GetStatusReturn ==
    /\ poll.pc = "unlock"
    /\ mutex' = "free"
    /\ poll' = [PollIdle EXCEPT !.tuple = poll.tuple, !.status = poll.tuple]
    /\ UNCHANGED <<unwritten, touch_state, input, window, committed>>

NextConcurrent ==
    \/ TouchPressedEnter \/ TouchMovedEnter \/ TouchReleasedEnter
    \/ InputLock \/ WriteTouchX \/ WriteTouchY \/ SwapFirst \/ SwapSecond
    \/ MirrorTouchX \/ SetTouchPressed
    \/ ClearTouchPressed \/ ClearTouchX \/ ClearTouchY
    \/ InputUnlock \/ CloseWindow
    \/ GetStatusEnter \/ PollLock \/ PollRead \/ GetStatusReturn

SpecConcurrent == InitConcurrent /\ [][NextConcurrent]_vars

\* C11: under any interleaving of the input thread with the polling thread,
\* the triple GetStatus returned last is the neutral (0, 0, false) when the
\* TouchState was gone, and otherwise a TouchState as the constructor or a
\* completed TouchPressed / TouchReleased left it; it is never a partially
\* written one, in particular never pressed = false with a non-zero
\* coordinate.
C11_GetStatusSeesCompletedUpdates ==
    /\ poll.status \in committed
    /\ poll.gone => (window = "closed" /\ poll.status = Neutral)
    /\ ~poll.status.touch_pressed =>
           (poll.status.touch_x = FZero /\ poll.status.touch_y = FZero)

\* C11 witness: GetStatus has returned the TouchState of a completed press
\* while the input thread is in the middle of the release that follows it
C11_Witness ==
    /\ poll.status.touch_pressed
    /\ poll.pc = "idle"
    /\ input.pc = "clear_x"
    /\ touch_state # poll.status

----------------------------------------------------------------------------
(* The camera: UpdateCameraHack as an action                                 *)

\* the double isZero(mouseMovement) finds behind the two of mouseMovement
Beyond == {DZero, DOne}

\* the matrix 0.0, 1.0, ..., 15.0; its determinant is zero
Marked == Concrete([i \in 1 .. 16 |-> D(i - 1, 0)])

\* the 16 doubles of a matrix nothing has written: values not known
Unwritten == [m |-> ZeroMatrix.m, ops |-> <<[op |-> "unwritten"]>>]

\* what a RenderHacksInput holds in view_matrix before anything is written
ViewMatrices == {Unwritten}

\* UpdateCameraHack(), lines 198-329, on the buttons held now
UpdateCameraHack ==
    \E beyond \in Beyond, view \in ViewMatrices :
        \E r \in {UpdateCameraHackResult(fps_camera_controller, camera_hack_state,
                      buttons, [beyond |-> beyond, view_matrix |-> view])} :
            LET same == tick.n > 0 /\ tick.keys = buttons
            IN  /\ fps_camera_controller' = r.fps
                /\ camera_hack_state' = r.cs
                /\ render_hacks' =
                       IF \E i \in DOMAIN r.calls : r.calls[i].fn = "SetRenderHacks"
                       THEN <<r.input>> ELSE <<>>
                /\ tick' = [tick EXCEPT
                       !.n = @ + 1, !.keys = buttons,
                       !.before = fps_camera_controller,
                       !.cs = camera_hack_state,
                       !.env = [beyond |-> beyond, view_matrix |-> view],
                       !.mouseDelta = r.mouseDelta, !.calls = r.calls,
                       !.run = IF same THEN @ + 1 ELSE 1,
                       !.from = IF same THEN @ ELSE fps_camera_controller.keyMovement,
                       !.sum = <<DAdd(@[1], r.mouseDelta[1]),
                                 DAdd(@[2], r.mouseDelta[2])>>]
                /\ call' = Call("UpdateCameraHack", 0, 0)
                /\ ret' = "void"
                /\ UNCHANGED <<framebuffer_layout, render_3d, replace_all, touch_state, buttons,
                               threadVars>>

----------------------------------------------------------------------------
(* The matrix library on its own: calls of mat4_translate, mat4_rotate and   *)
(* mat4_inverse on two buffers, worldMatrix (mat) and view_matrix (dest)     *)

\* the calls made in a row
MaxCalls == 2

\* what mat4_rotate(identity, pi / 2, (1, 0, 0)) leaves: s = 1, c = 0
QuarterPitch ==
    Concrete(<<DOne, DZero, DZero, DZero,
               DZero, DZero, DOne, DZero,
               DZero, D(-1, 0), DZero, DZero,
               DZero, DZero, DZero, DOne>>)

\* the identity moved by (1, 2, 3)
Moved123 ==
    mat4_translate("same", mat4_identity, mat4_identity,
                   <<D(1, 0), D(2, 0), D(3, 0)>>).mat

Matrices == {mat4_identity, Moved123, QuarterPitch, ZeroMatrix, Marked}

Aliases == {"null", "same", "other"}

MatrixVectors ==
    {<<DZero, DZero, DZero>>, <<D(1, 0), D(-2, 0), D(5, 1)>>, <<DZero, D(4, 0), DZero>>}

MatrixAxes == {Vec(DZero, DZero, DZero), Vec(DZero, DOne, DZero),
               Vec(D(3, 0), DZero, D(4, 0))}

MatrixAngles == {DZero, D(2, 3)}

view_matrix == render_hacks[1].view_matrix

InitMatrix ==
    /\ render_3d = Off
    /\ framebuffer_layout \in ThreadLayouts
    /\ touch_state = InitTouchState
    /\ replace_all = NoReplaceAll
    /\ camera_hack_state = InitCameraHackState
    /\ call = NoCall
    /\ ret = "void"
    /\ InitThreads
    /\ \E mat \in Matrices :
         /\ fps_camera_controller = [InitFpsCameraController EXCEPT !.worldMatrix = mat]
         /\ tick = NoTick(fps_camera_controller, InitCameraHackState)
    /\ \E dest \in Matrices \ {mat4_identity} :
         render_hacks = <<[view_matrix |-> dest, disable_fog |-> fog_disabled]>>
    /\ buttons = {}

\* the call fn(dest, mat, arg) made with dest as `alias` says, having yielded r
MatrixCall(fn, alias, arg, r) ==
    /\ tick.n < MaxCalls
    /\ fps_camera_controller' = [fps_camera_controller EXCEPT !.worldMatrix = r.mat]
    /\ render_hacks' =
           <<[render_hacks[1] EXCEPT
                 !.view_matrix = IF alias = "other" THEN r.dest ELSE @]>>
    /\ tick' = [tick EXCEPT
           !.n = @ + 1, !.before = fps_camera_controller,
           !.calls = <<[fn |-> fn, alias |-> alias, arg |-> arg, ret |-> r.ret,
                        dest |-> view_matrix]>>]
    /\ call' = Call(fn, 0, 0)
    /\ ret' = r.ret
    /\ UNCHANGED <<framebuffer_layout, render_3d, replace_all, touch_state, camera_hack_state,
                   buttons, threadVars>>

\* the matrix dest points at
Dest(alias) ==
    IF alias = "other" THEN view_matrix ELSE fps_camera_controller.worldMatrix

Translate ==
    \E alias \in Aliases, v \in MatrixVectors :
        MatrixCall("mat4_translate", alias, [v |-> v],
                   mat4_translate(alias, Dest(alias),
                                  fps_camera_controller.worldMatrix, v))

Rotate ==
    \E alias \in Aliases, angle \in MatrixAngles, axis \in MatrixAxes :
        MatrixCall("mat4_rotate", alias, [angle |-> angle, axis |-> axis],
                   mat4_rotate(alias, Dest(alias),
                               fps_camera_controller.worldMatrix, angle, axis))

Inverse ==
    \E alias \in Aliases :
        MatrixCall("mat4_inverse", alias, [v |-> <<>>],
                   mat4_inverse(alias, Dest(alias), fps_camera_controller.worldMatrix))

NextMatrix == Translate \/ Rotate \/ Inverse

SpecMatrix == InitMatrix /\ [][NextMatrix]_vars

\* the last library call, and the matrices it was given
LastCall == tick.calls[1]

mat_before == tick.before.worldMatrix

dest_before == LastCall.dest

Called(fn) == tick.calls # <<>> /\ LastCall.fn = fn
----------------------------------------------------------------------------
(* Properties of the matrix library *)

\* C19: mat4_translate called in place (dest null or dest == mat) changes
\* only the elements 12..15 of mat; called with another dest it leaves mat as
\* it was and writes to dest the 16 values the in-place call would have left
\* in mat, the elements 0..11 being those of mat.
C19_TranslateFrame ==
    Called("mat4_translate") =>
        LET worldMatrix == fps_camera_controller.worldMatrix
            inplace == mat4_translate("same", mat_before, mat_before,
                                      LastCall.arg.v).mat
        IN  IF LastCall.alias = "other"
            THEN /\ worldMatrix = mat_before
                 /\ view_matrix = inplace
                 /\ \A i \in 1 .. 12 : view_matrix.m[i] = mat_before.m[i]
            ELSE /\ \A i \in 1 .. 12 : worldMatrix.m[i] = mat_before.m[i]
                 /\ worldMatrix.ops = <<>> =>
                        worldMatrix.m[16] = DAdd(DAdd(DAdd(
                            DMul(mat_before.m[4], LastCall.arg.v[1]),
                            DMul(mat_before.m[8], LastCall.arg.v[2])),
                            DMul(mat_before.m[12], LastCall.arg.v[3])),
                            mat_before.m[16])
                 /\ view_matrix = dest_before

\* a translation of the pitched matrix written to a dest that held other
\* values in all 16 elements
C19_Witness ==
    /\ Called("mat4_translate") /\ LastCall.alias = "other"
    /\ mat_before = QuarterPitch /\ dest_before = Marked
    /\ LastCall.arg.v = <<D(1, 0), D(-2, 0), D(5, 1)>>
    /\ view_matrix.m[14] = D(-5, 1)

\* C20: mat4_rotate given an axis of length zero and mat4_inverse given a
\* matrix of determinant zero return null and write nothing, neither to dest
\* nor to mat: a failed rotation of worldMatrix in place, as UpdateCameraHack
\* calls it, leaves worldMatrix as it was.
C20_DegenerateCallWritesNothing ==
    LET degenerate ==
            IF Called("mat4_rotate") THEN ZeroLength(LastCall.arg.axis)
            ELSE Called("mat4_inverse") /\ DIsZero(Determinant(mat_before))
    IN  /\ degenerate =>
            /\ LastCall.ret = "null" /\ ret = "null"
            /\ fps_camera_controller.worldMatrix = mat_before
            /\ view_matrix = dest_before
        /\ (Called("mat4_rotate") \/ Called("mat4_inverse")) /\ ~degenerate =>
            LastCall.ret # "null"

\* a rotation in place about the axis (0, 0, 0) of a matrix that is not the
\* identity
C20_Witness ==
    /\ Called("mat4_rotate") /\ LastCall.alias = "same"
    /\ ZeroLength(LastCall.arg.axis) /\ ~DIsZero(LastCall.arg.angle)
    /\ mat_before = Moved123 /\ LastCall.ret = "null"
----------------------------------------------------------------------------
(* The camera driven by buttons and ticks                                    *)

\* the ticks run
MaxCameraTicks == 2

CameraLayout == Layout(8, 4, Rect(2, 0, 6, 2), Rect(1, 2, 7, 4), FALSE, 0, 0)

\* the sets of buttons found held
CameraKeys == {{}, {"B"}, {"E", "D"}, {"B", "Q", "W"}}

\* worldMatrix is declared in emu_window.h, which does not say here what it
\* holds before the first tick: the identity, a camera pitched by a quarter
\* turn, or the zeros of a value-initialized array
CameraMatrices == {mat4_identity, QuarterPitch, ZeroMatrix}

\* no drag yet, or a drag from (1, 1) to (3, 0) of the top screen that no tick
\* has seen
CameraDrags ==
    {InitCameraHackState,
     [grabbed |-> TRUE, lastX |-> IntToFloat(1), lastY |-> IntToFloat(1),
      tx |-> IntToFloat(3), ty |-> IntToFloat(0)]}

InitTick ==
    /\ render_3d = Off
    /\ framebuffer_layout = CameraLayout
    /\ touch_state = InitTouchState
    /\ replace_all = NoReplaceAll
    /\ camera_hack_state \in CameraDrags
    /\ call = NoCall
    /\ ret = "void"
    /\ InitThreads
    /\ \E mat \in CameraMatrices :
         /\ fps_camera_controller = [InitFpsCameraController EXCEPT !.worldMatrix = mat]
         /\ tick = NoTick(fps_camera_controller, camera_hack_state)
    /\ render_hacks = <<>>
    /\ buttons = {}

\* a button goes down or up between two ticks
HoldButtons ==
    /\ buttons' \in CameraKeys \ {buttons}
    /\ UNCHANGED <<framebuffer_layout, render_3d, replace_all, touch_state, camera_hack_state,
                   call, ret, threadVars, fps_camera_controller, render_hacks, tick>>

CameraTick == tick.n < MaxCameraTicks /\ UpdateCameraHack

NextTick == HoldButtons \/ CameraTick

SpecTick == InitTick /\ [][NextTick]_vars

----------------------------------------------------------------------------
(* The camera driven by drags on the top screen and ticks                    *)

\* the ticks run
MaxLookTicks == 3

\* two pixels of the top screen and one of no screen
CameraPixels == {<<3, 1>>, <<5, 0>>, <<0, 0>>}

InitLook ==
    /\ render_3d = Off
    /\ framebuffer_layout = CameraLayout
    /\ touch_state = InitTouchState
    /\ replace_all = NoReplaceAll
    /\ camera_hack_state = InitCameraHackState
    /\ call = NoCall
    /\ ret = "void"
    /\ InitThreads
    /\ InitCamera

\* TouchPressed(x, y); a press that grabs starts a new sum of deltas
CameraPress ==
    \E p \in CameraPixels :
        LET r == Pressed(p[1], p[2])
            grabs == IsWithinTopScreen(framebuffer_layout, p[1], p[2]).hit
        IN  /\ touch_state' = r.ts
            /\ camera_hack_state' = r.cs
            /\ ret' \in r.rets
            /\ call' = Call("TouchPressed", p[1], p[2])
            /\ tick' = IF grabs
                       THEN [tick EXCEPT
                               !.grab = <<FloatToDouble(r.cs.tx), FloatToDouble(r.cs.ty)>>,
                               !.sum = <<DZero, DZero>>]
                       ELSE tick
            /\ UNCHANGED <<framebuffer_layout, render_3d, replace_all, threadVars,
                           fps_camera_controller, render_hacks, buttons>>

CameraMove == \E p \in CameraPixels : TouchMovedAt(p[1], p[2])

CameraRelease == TouchReleased

LookTick == tick.n < MaxLookTicks /\ UpdateCameraHack

NextLook == CameraPress \/ CameraMove \/ CameraRelease \/ LookTick

SpecLook == InitLook /\ [][NextLook]_vars

----------------------------------------------------------------------------
(* Properties of the camera tick *)

\* the last action was a tick
Ticked == tick.n > 0 /\ call.op = "UpdateCameraHack"

\* the calls of fn the last tick made
CallsOf(fn) == {i \in DOMAIN tick.calls : tick.calls[i].fn = fn}

\* C12: a tick in which the inversion of worldMatrix fails hands nothing to
\* the renderer: SetRenderHacks is called only after a successful inversion.
C12_FailedInverseNotPublished ==
    Ticked =>
        \A i \in CallsOf("mat4_inverse") :
            tick.calls[i].ret = "null" =>
                /\ CallsOf("SetRenderHacks") = {}
                /\ render_hacks = <<>>

\* the worldMatrix the last tick would have left had it found mat
WorldMatrixFrom(mat) ==
    UpdateCameraHackResult([tick.before EXCEPT !.worldMatrix = mat], tick.cs,
                           tick.keys, tick.env).fps.worldMatrix

\* C15: a tick run with the reset button held sets worldMatrix to the
\* identity before it translates and rotates, so the worldMatrix it leaves is
\* the same whatever worldMatrix it found, and is the identity when the
\* velocity and the mouse delta are zero.
C15_ResetDiscardsWorldMatrix ==
    (Ticked /\ "B" \in tick.keys) =>
        /\ \A mat \in Matrices :
               WorldMatrixFrom(mat) = fps_camera_controller.worldMatrix
        /\ (/\ isZero(fps_camera_controller.keyMovement)
            /\ isZero(tick.mouseDelta \o <<DZero>>)) =>
               fps_camera_controller.worldMatrix = mat4_identity

\* a reset of the pitched camera while it moves
C15_Witness ==
    /\ Ticked /\ "B" \in tick.keys
    /\ tick.before.worldMatrix = QuarterPitch
    /\ ~isZero(fps_camera_controller.keyMovement)
    /\ fps_camera_controller.worldMatrix.m[1] = DOne
    /\ fps_camera_controller.worldMatrix.m[6] = DOne
    /\ fps_camera_controller.worldMatrix # mat4_identity

\* C17: the vector a tick hands to mat4_translate is the composed movement:
\* the velocity along local X and Z plus the vertical velocity times the up
\* axis (worldMatrix[1], worldMatrix[5], worldMatrix[9]).
C17_TranslatesByComposedMovement ==
    Ticked =>
        \A i \in CallsOf("mat4_translate") :
            tick.calls[i].v =
                FinalMovement(fps_camera_controller.keyMovement,
                              Up(ResetWorld(tick.keys, tick.before.worldMatrix)))

----------------------------------------------------------------------------
(* Properties of the look-around *)

\* the step is a tick
IsTick == tick'.n = tick.n + 1

\* the last handler called was a TouchPressed that grabbed
FreshGrab ==
    /\ call.op = "TouchPressed"
    /\ IsWithinTopScreen(framebuffer_layout, call.x, call.y).hit

\* C16: a tick computes mouseDelta = (tx, ty) - (lastX, lastY) and then sets
\* (lastX, lastY) = (tx, ty): a tick that follows a tick with no touch event
\* in between finds a zero delta, so does a tick that follows a grabbing
\* press, and the deltas of all ticks since a grab add up to the displacement
\* of (tx, ty) since that grab.
C16_TickConsumesDelta ==
    [][IsTick =>
        LET cs == camera_hack_state
            x == FloatToDouble(cs.tx)
            y == FloatToDouble(cs.ty)
        IN  /\ tick'.mouseDelta = <<DSub(x, FloatToDouble(cs.lastX)),
                                   DSub(y, FloatToDouble(cs.lastY))>>
            /\ camera_hack_state' = [cs EXCEPT !.lastX = cs.tx, !.lastY = cs.ty]
            /\ call.op = "UpdateCameraHack" => tick'.mouseDelta = <<DZero, DZero>>
            /\ FreshGrab => tick'.mouseDelta = <<DZero, DZero>>
            /\ tick'.sum = <<DSub(x, tick.grab[1]), DSub(y, tick.grab[2])>>]_vars

\* a grab at (1, 1) dragged to (3, 0) and back, a tick after each move
C16_Witness ==
    /\ Ticked /\ tick.n >= 2 /\ camera_hack_state.grabbed
    /\ tick.grab = <<DOne, DOne>>
    /\ tick.mouseDelta = <<D(-2, 0), DOne>>
    /\ tick.sum = <<DZero, DZero>>

\* the library calls of the last tick that rotate worldMatrix
Rotations == SelectSeq(tick.calls, LAMBDA c : c.fn = "mat4_rotate")

\* the yaw and the pitch the last tick would make with the angles a
YawThenPitch(a) ==
    LET up == Normalize(Up(ResetWorld(tick.keys, tick.before.worldMatrix)))
    IN  /\ Len(Rotations) = 2
        /\ Rotations[1].angle = a[1] /\ Rotations[1].axis = up
        /\ Rotations[2].angle = a[2] /\ Rotations[2].axis = Vec(DOne, DZero, DZero)

\* C18 as claimed: the angular velocity is accumulated, decayed and snapped,
\* and only then tested and used: worldMatrix is rotated when the velocity
\* the tick leaves is not zero, by that velocity, yaw first.
C18_RotatesByDecayedVelocity ==
    Ticked =>
        LET m == fps_camera_controller.mouseMovement
        IN  /\ Rotations # <<>> <=> ~isZero(m \o <<tick.env.beyond>>)
            /\ Rotations # <<>> => YawThenPitch(m)

\* C18: the angular velocity is accumulated (mouseDelta / -500) and tested
\* at once: when isZero finds it non-zero, worldMatrix is rotated by it, yaw
\* about the normalized up axis first and pitch about the X axis second; only
\* then is it decayed by the drag factor and snapped to zero under 0.0001.
C18_RotatesByAccumulatedVelocity ==
    Ticked =>
        LET acc == <<DAdd(tick.before.mouseMovement[1],
                          DMul(tick.mouseDelta[1], D(-2, 3))),
                     DAdd(tick.before.mouseMovement[2],
                          DMul(tick.mouseDelta[2], D(-2, 3)))>>
            decayed(a) == LET d == DMul(a, mouseLookDrag)
                          IN  IF DLt(DAbs(d), mouseMoveLowSpeedCap) THEN DZero ELSE d
        IN  /\ Rotations # <<>> <=> ~isZero(acc \o <<tick.env.beyond>>)
            /\ ~isZero(acc \o <<DZero>>) => Rotations # <<>>
            /\ Rotations # <<>> => YawThenPitch(acc)
            /\ fps_camera_controller.mouseMovement = <<decayed(acc[1]), decayed(acc[2])>>

\* a tick that saw the drag from (1, 1) to (3, 0): it rotated by (-0.004,
\* 0.002) and left no angular velocity
C18_Witness ==
    /\ Ticked /\ tick.mouseDelta = <<D(2, 0), D(-1, 0)>>
    /\ Len(Rotations) = 2
    /\ Rotations[1].angle = D(-4, 3) /\ Rotations[2].angle = D(2, 3)
    /\ fps_camera_controller.mouseMovement = <<DZero, DZero>>

----------------------------------------------------------------------------
(* The camera driven by the keyboard and ticks                               *)

\* the ticks run
MaxTicks == 9

\* the changes of the buttons held
MaxKeyEvents == 2

\* nothing held; D, S, E; A, W, Q; D with the boost
KeySamples == {{}, {"D", "S", "E"}, {"A", "W", "Q"}, {"D", "Shift"}}

InitKeys == InitLook

\* buttons go down or up between two ticks
KeyEvent ==
    /\ tick.events < MaxKeyEvents
    /\ buttons' \in KeySamples \ {buttons}
    /\ tick' = [tick EXCEPT !.events = @ + 1]
    /\ UNCHANGED <<framebuffer_layout, render_3d, replace_all, touch_state, camera_hack_state,
                   call, ret, threadVars, fps_camera_controller, render_hacks>>

KeysTick == tick.n < MaxTicks /\ UpdateCameraHack

NextKeys == KeyEvent \/ KeysTick

SpecKeys == InitKeys /\ [][NextKeys]_vars
----------------------------------------------------------------------------
(* The camera coasting: buttons pressed once, held for some ticks, released  *)
(* once, and ticks until the velocity is gone                                *)

\* the ticks run before the buttons are released
MaxHold == 5

\* the ticks run after it
MaxCoast == 41

InitCoast == InitLook

\* the buttons of one sample go down, once
CoastPress ==
    /\ tick.events = 0
    /\ buttons' \in KeySamples \ {{}}
    /\ tick' = [tick EXCEPT !.events = 1]
    /\ UNCHANGED <<framebuffer_layout, render_3d, replace_all, touch_state, camera_hack_state,
                   call, ret, threadVars, fps_camera_controller, render_hacks>>

\* they all go up
CoastRelease ==
    /\ tick.events = 1
    /\ buttons' = {}
    /\ tick' = [tick EXCEPT !.events = 2]
    /\ UNCHANGED <<framebuffer_layout, render_3d, replace_all, touch_state, camera_hack_state,
                   call, ret, threadVars, fps_camera_controller, render_hacks>>

CoastTick ==
    /\ tick.n < (IF tick.events = 2 THEN MaxHold + MaxCoast ELSE MaxHold)
    /\ UpdateCameraHack

NextCoast == CoastPress \/ CoastRelease \/ CoastTick

SpecCoast == InitCoast /\ [][NextCoast]_vars

----------------------------------------------------------------------------
(* Properties of the velocity integrator                                     *)

\* the buttons of keyMovement[0], keyMovement[1] and keyMovement[2]: the one
\* that lowers the velocity and the one that raises it
NegButton == <<"A", "Q", "W">>

PosButton == <<"D", "E", "S">>

DLe(a, b) == ~DLt(b, a)

\* keyMoveSpeed, or keyMoveSpeed times the boost multiplier with the boost held
SpeedCap(keys) ==
    DMul(keyMoveSpeed, IF "Shift" \in keys THEN keyMoveShiftMult ELSE DOne)

\* the tick just run polled exactly one of the two buttons of axis a as held
HeldAlone(a) ==
    Ticked /\ ((NegButton[a] \in tick.keys) # (PosButton[a] \in tick.keys))

\* v does not point away from the button of axis a that is held
Toward(a, v) ==
    IF NegButton[a] \in tick.keys THEN DLe(v, DZero) ELSE DLe(DZero, v)

\* one tick of a hold: the magnitude did not decrease, is within the cap, and
\* is the cap from the fifth tick of the hold on
HoldStep(a) ==
    LET before == tick.before.keyMovement[a]
        after == fps_camera_controller.keyMovement[a]
        cap == SpeedCap(tick.keys)
    IN  /\ DLe(DAbs(before), DAbs(after))
        /\ DLe(DAbs(after), cap)
        /\ tick.run >= 5 => DAbs(after) = cap

\* C13 as stated: on every tick of a run of ticks that polled the same buttons,
\* one directional button of an axis among them, the magnitude of the
\* velocity of the axis does not decrease, does not exceed the cap and is
\* exactly the cap once the hold has lasted five ticks.
C13_HoldRaisesSpeedToCap == \A a \in 1..3 : HeldAlone(a) => HoldStep(a)

\* C13, amended: the same, for a hold that began at rest or at a velocity
\* towards the held button of magnitude at most the cap.
C13_HoldFromRestRaisesSpeedToCap ==
    \A a \in 1..3 :
        (/\ HeldAlone(a)
         /\ Toward(a, tick.from[a])
         /\ DLe(DAbs(tick.from[a]), SpeedCap(tick.keys)))
        => HoldStep(a)

\* the fifth tick of D held with the boost, from rest: the velocity is 50
C13_Witness ==
    /\ Ticked /\ tick.keys = {"D", "Shift"} /\ tick.run = 5
    /\ DIsZero(tick.from[1])
    /\ tick.before.keyMovement[1] = D(40, 0)
    /\ fps_camera_controller.keyMovement[1] = D(50, 0)

\* neither button of axis a was polled as held by the tick just run
Idle(a) ==
    Ticked /\ NegButton[a] \notin tick.keys /\ PosButton[a] \notin tick.keys

\* v is zero after at most n further ticks with neither button held
RECURSIVE Rests(_, _)
Rests(v, n) ==
    IF DIsZero(v) THEN TRUE
    ELSE IF n = 0 THEN FALSE
    ELSE Rests(MoveAxis(v, FALSE, FALSE, DZero, DZero), n - 1)

\* C14: a tick with neither button of an axis held leaves 0.8 times the
\* velocity, or exactly 0 when the magnitude of that product is below 0.01
\* (so a velocity of 0 stays 0); and every velocity a tick leaves is exactly 0
\* after at most 39 ticks without the buttons of its axis.
C14_IdleAxisDecaysToRest ==
    \A a \in 1..3 :
        LET before == tick.before.keyMovement[a]
            after == fps_camera_controller.keyMovement[a]
            w == DMul(before, D(8, 1))
        IN  /\ Idle(a) => IF DLt(DAbs(w), D(1, 2)) THEN after = DZero ELSE after = w
            /\ Ticked => Rests(after, 39)

\* the boost and D released at 50: the 38th tick since left 50 * 0.8^38, above
\* 0.01, and the 39th left exactly 0
C14_Witness ==
    /\ Idle(1) /\ tick.run = 39
    /\ tick.from[1] = D(50, 0)
    /\ DLe(D(1, 2), tick.before.keyMovement[1])
    /\ fps_camera_controller.keyMovement[1] = DZero
----------------------------------------------------------------------------
(* Properties of the two flows together                                      *)

\* C21: the touch flow and the camera-grab flow exclude each other: after any
\* sequence of TouchPressed, TouchMoved and TouchReleased, touch_pressed and
\* grabbed are not both true.
C21_TouchAndGrabExclusive ==
    ~(touch_state.touch_pressed /\ camera_hack_state.grabbed)

\* C22: a TouchMoved called while grabbed is true leaves TouchState, grabbed,
\* lastX and lastY as they were, and sets tx/ty to the offset of the pixel
\* from the top screen's top-left corner when the pixel lies in top_screen,
\* and leaves them too otherwise.
C22_MoveWhileGrabbedUpdatesOnlyTxTy ==
    [][\A x \in PixelsX, y \in PixelsY :
         (camera_hack_state.grabbed /\ TouchMovedAt(x, y))
         => /\ touch_state' = touch_state
            /\ camera_hack_state' =
                 IF InRect(top_screen, x, y)
                 THEN [camera_hack_state EXCEPT !.tx = Rat(x - top_screen.left, 1),
                                                !.ty = Rat(y - top_screen.top, 1)]
                 ELSE camera_hack_state]_vars

\* the rectangles a and b share no pixel
Disjoint(a, b) ==
    \/ a.right <= b.left \/ b.right <= a.left
    \/ a.bottom <= b.top \/ b.bottom <= a.top

\* C23: with top_screen and bottom_screen disjoint, a TouchMoved called while
\* grabbed is false leaves CameraHackState as it was, whatever the stereo
\* option and the pixel; and if a touch was pressed, TouchState holds the
\* pressed touch at the pixel, clipped to the touch region when outside it.
C23_MoveNeverStartsGrab ==
    [][\A x \in PixelsX, y \in PixelsY :
         ( /\ ~camera_hack_state.grabbed
           /\ Disjoint(top_screen, bottom_screen)
           /\ TouchMovedAt(x, y) )
         => /\ camera_hack_state' = camera_hack_state
            /\ touch_state.touch_pressed =>
                 LET q == IF IsWithinTouchscreen(framebuffer_layout, render_3d, x, y)
                          THEN <<x, y>>
                          ELSE ClipToTouchScreen(framebuffer_layout, render_3d, x, y)
                 IN  touch_state' = MapTouch(framebuffer_layout, render_3d, q[1], q[2])]_vars

\* C24: whenever no thread holds TouchState::mutex, a TouchState that is not
\* pressed has touch_x = 0 and touch_y = 0, after any interleaving of
\* TouchPressed, TouchMoved and TouchReleased with GetStatus.
C24_UnpressedCoordinatesZero ==
    mutex = "free" =>
        (~touch_state.touch_pressed =>
            (touch_state.touch_x = FZero /\ touch_state.touch_y = FZero))

\* C24 witness: TouchReleased has returned and freed the mutex after a
\* completed press that left a non-zero coordinate
C24_Witness ==
    /\ mutex = "free"
    /\ input.pc = "idle"
    /\ call.op = "TouchReleased"
    /\ ~touch_state.touch_pressed
    /\ \E s \in committed :
          s.touch_pressed /\ s.touch_x # FZero /\ s.touch_y # FZero

----------------------------------------------------------------------------
(* Common::ReplaceAll, string_util.cpp lines 124-136, one loop iteration per *)
(* step.  A std::string is a sequence of characters, positions count from 0. *)

\* the characters of the strings tried
Alphabet == {"a", "b"}

\* the longest result, src and dest ReplaceAll is called with
MaxResult == 3
MaxSrc == 2
MaxDest == 2

\* the loop is followed while result is no longer than this
MaxGrown == 6

Strings(n) == UNION { [1 .. k -> Alphabet] : k \in 0 .. n }

\* std::string::npos: no position of any string
npos == -1

\* str.find(s, from): the first position p >= from where s occurs in str, a
\* match of the empty s being any p <= str.size(); npos when there is none
find(str, s, from) ==
    LET hits == { p \in from .. (Len(str) - Len(s)) :
                    SubSeq(str, p + 1, p + Len(s)) = s }
    IN  IF hits = {} THEN npos
        ELSE CHOOSE p \in hits : \A q \in hits : p <= q

\* str.replace(pos, n, dest): the n characters from pos on give way to dest
replace(str, pos, n, dest) ==
    SubSeq(str, 1, pos) \o dest \o SubSeq(str, pos + n + 1, Len(str))

InitReplace ==
    /\ render_3d = Off
    /\ framebuffer_layout = CameraLayout
    /\ touch_state = InitTouchState
    /\ camera_hack_state = InitCameraHackState
    /\ call = NoCall
    /\ ret = "void"
    /\ InitThreads
    /\ InitCamera
    /\ \E result \in Strings(MaxResult), src \in Strings(MaxSrc),
          dest \in Strings(MaxDest) :
         replace_all = [pc |-> "called", result |-> result, src |-> src,
                        dest |-> dest, pos |-> 0]

notReplaceAll ==
    <<framebuffer_layout, render_3d, touch_state, camera_hack_state, call, ret,
      threadVars, cameraVars>>

\* pos = 0; if (src == dest) return result;  lines 125-128
ReplaceAllEnter ==
    /\ replace_all.pc = "called"
    /\ replace_all' = [replace_all EXCEPT
                         !.pc = IF replace_all.src = replace_all.dest
                                THEN "returned" ELSE "loop"]
    /\ UNCHANGED notReplaceAll

\* one turn of the loop, lines 130-133: find has found src at or after pos
ReplaceAllIterate ==
    /\ replace_all.pc = "loop"
    /\ Len(replace_all.result) <= MaxGrown
    /\ \E found \in {find(replace_all.result, replace_all.src, replace_all.pos)} :
         /\ found # npos
         /\ replace_all' = [replace_all EXCEPT
                !.result = replace(replace_all.result, found,
                                   Len(replace_all.src), replace_all.dest),
                !.pos = found + Len(replace_all.dest)]
    /\ UNCHANGED notReplaceAll

\* the loop test fails, line 130, and result is returned, line 135
ReplaceAllReturn ==
    /\ replace_all.pc = "loop"
    /\ find(replace_all.result, replace_all.src, replace_all.pos) = npos
    /\ replace_all' = [replace_all EXCEPT !.pc = "returned", !.pos = npos]
    /\ UNCHANGED notReplaceAll

NextReplace == ReplaceAllEnter \/ ReplaceAllIterate \/ ReplaceAllReturn

SpecReplace == InitReplace /\ [][NextReplace]_vars

\* what find has still to look at: the characters of result from pos on
Unscanned(r) == Len(r.result) - r.pos

\* C25: every turn of ReplaceAll's loop leaves strictly less of result to
\* scan than it found, whatever result, src and dest are, so that the loop
\* ends.
C25_IterationShrinksUnscanned ==
    [][ReplaceAllIterate => Unscanned(replace_all') < Unscanned(replace_all)]_vars

----------------------------------------------------------------------------
(* isZero on the two velocities of the controller                            *)

\* C26: isZero reads only elements of the array it is given: all three of
\* keyMovement, and of the two-element mouseMovement only yaw and pitch, so
\* that a tick rotates worldMatrix exactly when the accumulated yaw or pitch
\* is not zero.
C26_RotationTestReadsYawAndPitchOnly ==
    Ticked =>
        LET yaw == DAdd(tick.before.mouseMovement[1],
                        DMul(tick.mouseDelta[1], D(-2, 3)))
            pitch == DAdd(tick.before.mouseMovement[2],
                          DMul(tick.mouseDelta[2], D(-2, 3)))
        IN  /\ Len(tick.before.mouseMovement) = 2
            /\ Rotations # <<>> <=> ~(DIsZero(yaw) /\ DIsZero(pitch))

====
